---- MODULE Spec2Model ----
(***************************************************************************)
(* vinylcollection-enricher v4.2.4: the fetch handler and its resolver     *)
(* stages, stepped at the outbound-call boundaries.                        *)
(*                                                                         *)
(* Text is a TLA+ string; a falsy JS string value (undefined, null, "")    *)
(* is the empty string "".  An optional object ({id,url} reference, a      *)
(* response body) is a sequence of length 0 (absent) or 1 (present).       *)
(* A diagnostic note is the sequence of the fragments of its template      *)
(* literal, so "fatal:" stays a recognisable prefix.                       *)
(***************************************************************************)
EXTENDS Naturals, Sequences, FiniteSets, TLC

VARIABLES
  seed,         \* the seed object of parseSeed, mutated by normalizeSeed
  flags,        \* the flags object
  canonical,    \* out.canonical
  ids,          \* out.ids
  wikipedia,    \* out.wikipedia
  wiki,         \* out.wiki (the three galleries)
  downloads,    \* out.downloads.image_urls
  diagnostics,  \* out.diagnostics
  stamps,       \* the ts_* stamps set on out
  pc,           \* position of the handler
  plan,         \* the order in which the resolver stages are invoked
  stage,        \* index in plan of the stage being executed
  loc,          \* locals of the running stage (mbRel, loop indexes, files)
  net,          \* every outbound attempt issued so far, in order
  called,       \* the stage functions called so far, in order
  faults,       \* number of calls so far that did not answer 200 at once
  world,        \* what the providers hold: the body of each 2xx answer
  response,     \* the Response returned by fetch, <<>> until it returns
  other,        \* the invocation suspended at an await, <<>> if there is none
  running,      \* which of the invocations is the one running
  request       \* the query parameters and the cmd parameter of the request

vars == <<seed, flags, canonical, ids, wikipedia, wiki, downloads,
          diagnostics, stamps, pc, plan, stage, loc, net, called, faults,
          world, response, other, running, request>>

(***************************************************************************)
(* Bounds of the environment.                                              *)
(***************************************************************************)
\* provider calls of one run that may do something else than answer 200
\* to their first attempt
MaxFailedCalls == 1

(***************************************************************************)
(* Program constants.                                                      *)
(***************************************************************************)
UPC_LEN == 12
EAN_LEN == 13
HTTP_TOO_MANY == 429
RESPONSE_STATUS == 200
DEFAULT_MAX_IMAGES == 12

(***************************************************************************)
(* String helpers.                                                         *)
(***************************************************************************)
Digits == {"0", "1", "2", "3", "4", "5", "6", "7", "8", "9"}

CharAt(s, i) == SubSeq(s, i, i)

\* s.replace(/\D+/g, "")
RECURSIVE StripNonDigits(_)
StripNonDigits(s) ==
  IF s = "" THEN ""
  ELSE (IF CharAt(s, 1) \in Digits THEN CharAt(s, 1) ELSE "")
         \o StripNonDigits(Tail(s))

\* s.replace(/^0+/, "")
RECURSIVE StripLeadingZeros(_)
StripLeadingZeros(s) ==
  IF s # "" /\ CharAt(s, 1) = "0" THEN StripLeadingZeros(Tail(s))
  ELSE s

\* s.padStart(n, "0")
RECURSIVE PadStart(_, _)
PadStart(s, n) == IF Len(s) >= n THEN s ELSE PadStart("0" \o s, n)

\* a || b on strings
Or(a, b) == IF a # "" THEN a ELSE b

\* a slip that trims the leading zeros before it looks at the length
normalizeBarcode_strip_first(b) ==
  IF b = "" THEN ""
  ELSE LET digits == StripNonDigits(b) IN
       IF digits = "" THEN ""
       ELSE Or(StripLeadingZeros(digits), digits)

normalizeBarcode(b) ==
  IF b = "" THEN ""
  ELSE LET digits == StripNonDigits(b) IN
       IF digits = "" THEN ""
       ELSE IF Len(digits) = UPC_LEN THEN digits
       ELSE IF Len(digits) = EAN_LEN THEN digits
       ELSE Or(StripLeadingZeros(digits), digits)

\* Array.from(new Set(arr.filter(Boolean))) on an array of strings
RECURSIVE dedupeTo(_, _)
dedupeTo(arr, n) ==
  IF n = 0 THEN <<>>
  ELSE IF arr[n] = "" \/ \E i \in 1..(n - 1) : arr[i] = arr[n]
       THEN dedupeTo(arr, n - 1)
       ELSE Append(dedupeTo(arr, n - 1), arr[n])

dedupe(arr) == dedupeTo(arr, Len(arr))

(***************************************************************************)
(* The providers, as the handler sees them: every attempt either rejects   *)
(* (a network-level error) or answers a status, and a 2xx answer carries   *)
(* a body.                                                                 *)
(***************************************************************************)
Statuses == {200, 404, 429}
NetworkError == [err |-> TRUE, status |-> 0]
Attempts == {[err |-> FALSE, status |-> st] : st \in Statuses} \cup {NetworkError}

\* Response.ok
Ok(a) == a.status >= 200 /\ a.status <= 299

\* what the provider may do with the second attempt of a call whose first
\* attempt it answered with a1 (there is none unless a1 is a 429)
Retries(a1) == IF a1.status = HTTP_TOO_MANY THEN Attempts ELSE {a1}

\* 1 when the attempts `as` of a call count against MaxFailedCalls
FaultsIn(as) == IF Len(as) = 1 /\ ~as[1].err /\ Ok(as[1]) THEN 0 ELSE 1

\* the record kept in `net` for each attempt of a call
Issued(as, fam, req, arg) ==
  [i \in 1..Len(as) |->
     [family |-> fam, req |-> req, arg |-> arg, attempt |-> i,
      err |-> as[i].err, status |-> as[i].status]]

\* String(e.message) of a rejected fetch
NetworkErrorMessage == "fetch failed"

(***************************************************************************)
(* GETjson: one call of the provider client.  a1 and a2 are what the       *)
(* provider does with the first and with the second attempt, body is the   *)
(* JSON of a 2xx answer.  The result holds the diagnostics log after the   *)
(* call, the data returned (<<>> is null), whether the call threw, and the *)
(* attempts it made.                                                       *)
(***************************************************************************)
LogEntry(url, a) == [url |-> url, status |-> a.status]

\* a slip that treats every answer that is not a success as an exception
Rejects_unless_ok(a) == a.err \/ ~Ok(a)

\* `await fetch(url)` throws: the promise of the attempt rejects
Rejects(a) == a.err

\* a slip that retries after every answer that is not a success
ShouldRetry_any_failure(a1) == ~Ok(a1)

\* r.status === 429
ShouldRetry(a1) == a1.status = HTTP_TOO_MANY

\* a slip that keeps one entry per call: the retry's replaces the first
PushRetry_replace(log1, path, a2) ==
  Append(SubSeq(log1, 1, Len(log1) - 1), LogEntry(path \o " (retry)", a2))

\* diagArr.push({ url: path + " (retry)", status: retry.status })
PushRetry(log1, path, a2) == Append(log1, LogEntry(path \o " (retry)", a2))

GETjson(path, diagArr, qs, a1, a2, body) ==
  IF Rejects(a1)
  THEN [log |-> diagArr, data |-> <<>>, thrown |-> TRUE, attempts |-> <<a1>>]
  ELSE LET log1 == Append(diagArr,
                     LogEntry(path \o (IF qs # "" THEN "?" \o qs ELSE ""), a1))
       IN IF ShouldRetry(a1)
          THEN IF Rejects(a2)
               THEN [log |-> log1, data |-> <<>>, thrown |-> TRUE,
                     attempts |-> <<a1, a2>>]
               ELSE [log |-> PushRetry(log1, path, a2),
                     data |-> IF Ok(a2) THEN <<body>> ELSE <<>>,
                     thrown |-> FALSE, attempts |-> <<a1, a2>>]
          ELSE [log |-> log1, data |-> IF Ok(a1) THEN <<body>> ELSE <<>>,
                thrown |-> FALSE, attempts |-> <<a1>>]

(***************************************************************************)
(* initOut and the seeds.                                                  *)
(***************************************************************************)
IdKinds == {"discogs_release_id", "discogs_master_id", "mb_release_mbid",
            "mb_release_group", "mb_artist_id", "wikidata_qid",
            "artist_wikidata_qid", "wikipedia_title"}

ScalarFields == {"title", "artist", "label", "catalog_number", "year",
                 "country", "cover_url", "upc"}

Ref(id, url) == <<[id |-> id, url |-> url]>>

initCanonical ==
  [title |-> "", artist |-> "", label |-> "", catalog_number |-> "",
   year |-> "", country |-> "", cover_url |-> "", upc |-> "",
   format |-> <<>>, genre |-> <<>>]

initDiagnostics ==
  [matched_on |-> "", notes |-> <<>>, tried_barcodes |-> <<>>,
   mb_http |-> <<>>, discogs_http |-> <<>>, wiki_http |-> <<>>,
   wd_http |-> <<>>]

initWikipedia ==
  [title |-> "", summary |-> <<>>, infobox |-> <<>>, tracklist |-> <<>>,
   personnel |-> <<>>, awards |-> <<>>, certifications |-> <<>>,
   landmarks |-> <<>>]

initWiki == [article_gallery |-> <<>>, album_gallery |-> <<>>,
             artist_gallery |-> <<>>]

initLoc == [mbRel |-> <<>>, bcIx |-> 1, files |-> <<>>, fileIx |-> 1]

\* a slip that asks Wikidata before MusicBrainz has been searched
Pipeline_wikidata_first == <<"discogs", "wd_album_rg", "mb_barcode", "wp_summary",
                             "img_entity", "finalize", "aggregate">>

\* the stages of fetch, by the position at which each one starts
Pipeline == <<"discogs", "mb_barcode", "wd_album_rg", "wp_summary",
              "img_entity", "finalize", "aggregate">>

InitOut ==
  /\ canonical = initCanonical
  /\ ids = [k \in IdKinds |-> <<>>]
  /\ wikipedia = initWikipedia
  /\ wiki = initWiki
  /\ downloads = <<>>
  /\ diagnostics = initDiagnostics
  /\ stamps = {"start"}
  /\ pc = "normalize"
  /\ stage = 0
  /\ loc = initLoc
  /\ net = <<>>
  /\ called = <<>>
  /\ faults = 0
  /\ response = <<>>

(***************************************************************************)
(* Control flow of fetch.                                                  *)
(***************************************************************************)
\* the statement after the current stage
NextStage ==
  /\ stage' = stage + 1
  /\ pc' = IF stage + 1 > Len(plan) THEN "respond" ELSE plan[stage + 1]

Goto(p) == pc' = p /\ stage' = stage

\* a slip that swallows the exception without a note
Caught_silent(diag, msg) == diag

\* the catch clause of fetch
Caught(diag, msg) ==
  [diag EXCEPT !.notes = Append(@, <<"fatal:", msg>>)]

\* a slip that gives up the failing stage only and goes on with the next
Throw_next_stage == NextStage

\* the exception leaves the try block: the statement after the catch is next
Throw == pc' = "respond" /\ stage' = stage

\* the attempts of a call to `req` when the providers answer every call to
\* one endpoint in the same way (world.answers) and all the others with 200
Scripted(as, req) ==
  /\ as[1] = IF req = world.answers[1].req THEN world.answers[1].first
             ELSE [err |-> FALSE, status |-> 200]
  /\ \A i \in 2..Len(as) : as[i] = [err |-> FALSE, status |-> 200]

\* the environment answers the attempts `as` of one call
Answer(as, fam, req, arg) ==
  /\ IF world.answers = <<>>
     THEN /\ faults + FaultsIn(as) <= MaxFailedCalls
          /\ faults' = faults + FaultsIn(as)
     ELSE /\ Scripted(as, req)
          /\ faults' = faults
  /\ net' = net \o Issued(as, fam, req, arg)

NoCall == UNCHANGED <<net, faults>>

\* a slip that records the 13-digit form before the 12-digit one
TriedBarcodes_13_first(upc) ==
  IF upc # "" /\ Len(upc) = UPC_LEN
  THEN <<PadStart("0" \o upc, EAN_LEN), upc>>
  ELSE IF upc # "" THEN <<upc>> ELSE <<>>

\* what lines 217-222 of normalizeSeed push to tried_barcodes
TriedBarcodes(upc) ==
  LET t1 == IF upc # "" THEN <<upc>> ELSE <<>>
  IN IF upc # "" /\ Len(upc) = UPC_LEN
     THEN Append(t1, PadStart("0" \o upc, EAN_LEN)) ELSE t1

normalizeSeed ==
  /\ pc = "normalize"
  /\ LET upc == normalizeBarcode(seed.upc)
     IN /\ seed' = [seed EXCEPT !.upc = upc]
        /\ diagnostics' = [diagnostics EXCEPT !.tried_barcodes =
                             @ \o TriedBarcodes(upc)]
  /\ NextStage
  /\ NoCall
  /\ UNCHANGED <<flags, canonical, ids, wikipedia, wiki, downloads, stamps,
                 plan, loc, called, world, response,
                 other, running, request>>

(***************************************************************************)
(* Discogs.                                                                *)
(***************************************************************************)
\* hit.title.split(" \u2013 ") is the field `title`; hit.title is its join
RECURSIVE JoinDash(_)
JoinDash(parts) ==
  IF Len(parts) = 0 THEN ""
  ELSE IF Len(parts) = 1 THEN parts[1]
  ELSE parts[1] \o " - " \o JoinDash(Tail(parts))

\* String(n) of a numeric id or year; 0 is the falsy number
Str(n) == ToString(n)

HitFull ==
  [id |-> 1001, master_id |-> 2002, country |-> "US", label |-> "Columbia",
   genre |-> <<"Jazz">>, style |-> <<"Modal", "", "Jazz">>,
   title |-> <<"Miles Davis", "Kind of Blue">>, year |-> 1959,
   thumb |-> "https://img.discogs.com/thumb.jpg"]

HitBare ==
  [id |-> 0, master_id |-> 0, country |-> "", label |-> "", genre |-> <<>>,
   style |-> <<>>, title |-> <<"Kind of Blue (Legacy Edition)">>, year |-> 0,
   thumb |-> ""]

NoResults == [results |-> <<>>]
Results(hit) == [results |-> <<hit>>]

DiscogsQuery(upc) == "type=release&barcode=" \o upc \o "&per_page=1&page=1"

\* lines 270-279 of resolveDiscogsByUPC
DiscogsIds(idsv, hit) ==
  LET i1 == [idsv EXCEPT !["discogs_release_id"] =
               IF hit.id # 0
               THEN Ref(Str(hit.id),
                        "https://www.discogs.com/release/" \o Str(hit.id))
               ELSE <<>>]
  IN IF hit.master_id # 0
     THEN [i1 EXCEPT !["discogs_master_id"] =
             Ref(Str(hit.master_id),
                 "https://www.discogs.com/master/" \o Str(hit.master_id))]
     ELSE i1

\* a slip that takes the title of the hit whatever the record holds
DiscogsTitle_overwrite(can, hit) ==
  LET m == hit.title IN
  IF JoinDash(m) # ""
  THEN IF Len(m) = 2 THEN [can EXCEPT !.artist = m[1], !.title = m[2]]
       ELSE [can EXCEPT !.title = JoinDash(m)]
  ELSE can

\* lines 286-295 of resolveDiscogsByUPC
DiscogsTitle(can, hit) ==
  LET m == hit.title IN
  IF JoinDash(m) # "" /\ can.title = ""
  THEN IF Len(m) = 2
       THEN [can EXCEPT !.artist = Or(@, m[1]), !.title = Or(@, m[2])]
       ELSE [can EXCEPT !.title = Or(@, JoinDash(m))]
  ELSE can

\* a slip that leaves the barcode out of the canonical record
StampUpc_never(can, upc) == can

\* line 298: if (seed.upc) out.canonical.upc = seed.upc
StampUpc(can, upc) == IF upc # "" THEN [can EXCEPT !.upc = upc] ELSE can

\* lines 282-298 of resolveDiscogsByUPC
DiscogsCanonical(can, hit, upc) ==
  LET c1 == IF hit.country # "" THEN [can EXCEPT !.country = hit.country]
            ELSE can
      c2 == IF hit.label # "" /\ c1.label = ""
            THEN [c1 EXCEPT !.label = hit.label] ELSE c1
      c3 == IF Len(hit.genre) > 0
            THEN [c2 EXCEPT !.genre = dedupe(@ \o hit.genre)] ELSE c2
      c4 == IF Len(hit.style) > 0
            THEN [c3 EXCEPT !.genre = dedupe(@ \o hit.style)] ELSE c3
      c5 == DiscogsTitle(c4, hit)
      c6 == IF hit.year # 0 /\ c5.year = ""
            THEN [c5 EXCEPT !.year = Str(hit.year)] ELSE c5
      c7 == IF hit.thumb # "" /\ c6.cover_url = ""
            THEN [c6 EXCEPT !.cover_url = hit.thumb] ELSE c6
  IN StampUpc(c7, upc)

DiscogsNote == <<"discogs query failed or rate-limited">>

\* fetch lines 62-64 and resolveDiscogsByUPC
resolveDiscogsByUPC ==
  /\ pc = "discogs"
  /\ IF seed.upc = ""
     THEN /\ NextStage
          /\ NoCall
          /\ UNCHANGED <<canonical, ids, diagnostics, called>>
     ELSE \E a1 \in Attempts : \E a2 \in Retries(a1), body \in {world.discogs} :
          LET r == GETjson("/database/search", diagnostics.discogs_http,
                           DiscogsQuery(seed.upc), a1, a2, body)
              d1 == [diagnostics EXCEPT !.discogs_http = r.log]
          IN /\ Answer(r.attempts, "discogs", "search", seed.upc)
             /\ called' = Append(called, "resolveDiscogsByUPC")
             /\ IF r.thrown
                THEN /\ diagnostics' = Caught(d1, NetworkErrorMessage)
                     /\ Throw
                     /\ UNCHANGED <<canonical, ids>>
                ELSE /\ NextStage
                     /\ IF r.data = <<>>
                        THEN /\ diagnostics' =
                                  [d1 EXCEPT !.notes = Append(@, DiscogsNote)]
                             /\ UNCHANGED <<canonical, ids>>
                        ELSE /\ diagnostics' = d1
                             /\ IF Len(r.data[1].results) = 0
                                THEN UNCHANGED <<canonical, ids>>
                                ELSE LET hit == r.data[1].results[1] IN
                                     /\ ids' = DiscogsIds(ids, hit)
                                     /\ canonical' =
                                          DiscogsCanonical(canonical, hit, seed.upc)
  /\ UNCHANGED <<seed, flags, wikipedia, wiki, downloads, stamps, plan, loc,
                 world, response, other, running, request>>

(***************************************************************************)
(* MusicBrainz.                                                            *)
(***************************************************************************)
LowerAlpha == "abcdefghijklmnopqrstuvwxyz"
UpperAlpha == "ABCDEFGHIJKLMNOPQRSTUVWXYZ"

\* c.toUpperCase() of one character
ToUpper(c) ==
  IF \E i \in 1..Len(LowerAlpha) : CharAt(LowerAlpha, i) = c
  THEN CharAt(UpperAlpha,
              CHOOSE i \in 1..Len(LowerAlpha) : CharAt(LowerAlpha, i) = c)
  ELSE c

\* the class \w
WordChar(c) ==
  \/ c \in Digits
  \/ c = "_"
  \/ \E i \in 1..Len(LowerAlpha) :
        CharAt(LowerAlpha, i) = c \/ CharAt(UpperAlpha, i) = c

\* s.replace(/\b\w/g, c => c.toUpperCase()), from position i on
RECURSIVE TitleCaseFrom(_, _)
TitleCaseFrom(s, i) ==
  IF i > Len(s) THEN ""
  ELSE LET c == CharAt(s, i)
           atBoundary == WordChar(c) /\ (i = 1 \/ ~WordChar(CharAt(s, i - 1)))
       IN (IF atBoundary THEN ToUpper(c) ELSE c) \o TitleCaseFrom(s, i + 1)

titleCase(s) == TitleCaseFrom(s, 1)

\* arr.map(f) for the two maps of resolveMusicBrainz
MapTitleCase(tags) == [i \in 1..Len(tags) |-> titleCase(tags[i])]

RECURSIVE JoinAmp(_)
JoinAmp(names) ==
  IF Len(names) = 0 THEN ""
  ELSE IF Len(names) = 1 THEN names[1]
  ELSE names[1] \o " & " \o JoinAmp(Tail(names))

\* a slip that reads the credited artist's identifier for the name
CreditNames_ids(credits) == [i \in 1..Len(credits) |-> credits[i].artist_id]

\* full["artist-credit"].map(ac => ac.name)
CreditNames(credits) == [i \in 1..Len(credits) |-> credits[i].name]

\* s.slice(0, n)
Slice0(s, n) == SubSeq(s, 1, IF Len(s) < n THEN Len(s) ELSE n)

YEAR_LEN == 4

\* a relation's url.resource: the site it points to and the path component
\* the resolver cuts out of it (site "none": the relation has no url)
Rel(site, key) == [site |-> site, key |-> key]

FullRich ==
  [id |-> "r1", title |-> "Kind of Blue (MB)",
   credits |-> <<[name |-> "Miles Davis Sextet", artist_id |-> "a1"]>>,
   rg |-> "rg1", country |-> "GB", date |-> "1960-03-01",
   labels |-> <<[name |-> "CBS", catalog_number |-> "CL 1355"]>>,
   tags |-> <<"jazz", "modal jazz", "", "Jazz">>,
   relations |-> <<Rel("none", ""), Rel("discogs", "555"), Rel("wikidata", "Q1"),
                   Rel("wikipedia", "Kind_of_Blue"), Rel("discogs", "556"),
                   Rel("wikidata", "Q9")>>]

FullDuo ==
  [id |-> "r2", title |-> "Duets",
   credits |-> <<[name |-> "Ann", artist_id |-> ""],
                 [name |-> "Bob", artist_id |-> "a2"]>>,
   rg |-> "rg2", country |-> "", date |-> "1961",
   labels |-> <<[name |-> "", catalog_number |-> ""]>>,
   tags |-> <<>>, relations |-> <<Rel("discogs", "")>>]

FullBare ==
  [id |-> "r3", title |-> "", credits |-> <<>>, rg |-> "", country |-> "",
   date |-> "", labels |-> <<>>, tags |-> <<>>, relations |-> <<>>]

NoReleases == [releases |-> <<>>]
Releases(id) == [releases |-> <<[id |-> id]>>]

\* the answer to the search for the i-th barcode candidate
BarcodeAnswer(i) ==
  IF world.mb_barcode_at = i THEN Releases("r1") ELSE NoReleases

\* a slip that reads the body of the answer whatever its status
hydrateMBRelease_any_status(id, diag, a, body) ==
  IF a.err
  THEN [diag |-> [diag EXCEPT !.notes =
                    Append(@, <<"musicbrainz release fetch error: ",
                                NetworkErrorMessage>>)],
        data |-> <<>>, attempts |-> <<a>>]
  ELSE [diag |-> [diag EXCEPT !.mb_http =
                    Append(@, LogEntry("/release/" \o id, a))],
        data |-> <<body>>, attempts |-> <<a>>]

\* hydrateMBRelease: one attempt, no retry; a rejected fetch is caught here
hydrateMBRelease(id, diag, a, body) ==
  IF a.err
  THEN [diag |-> [diag EXCEPT !.notes =
                    Append(@, <<"musicbrainz release fetch error: ",
                                NetworkErrorMessage>>)],
        data |-> <<>>, attempts |-> <<a>>]
  ELSE LET d1 == [diag EXCEPT !.mb_http =
                    Append(@, LogEntry("/release/" \o id, a))]
       IN IF ~Ok(a)
          THEN [diag |-> [d1 EXCEPT !.notes =
                            Append(@, <<"musicbrainz release detail failed with status ",
                                        Str(a.status)>>)],
                data |-> <<>>, attempts |-> <<a>>]
          ELSE [diag |-> d1, data |-> <<body>>, attempts |-> <<a>>]

\* lines 349-365 of resolveMusicBrainz
MBIds(idsv, full) ==
  LET i1 == [idsv EXCEPT !["mb_release_mbid"] =
               Ref(full.id, "https://musicbrainz.org/release/" \o full.id)]
      i2 == IF full.rg # ""
            THEN [i1 EXCEPT !["mb_release_group"] =
                    Ref(full.rg,
                        "https://musicbrainz.org/release-group/" \o full.rg)]
            ELSE i1
  IN IF Len(full.credits) > 0 /\ full.credits[1].artist_id # ""
     THEN [i2 EXCEPT !["mb_artist_id"] =
             Ref(full.credits[1].artist_id,
                 "https://musicbrainz.org/artist/" \o full.credits[1].artist_id)]
     ELSE i2

\* a slip that lets the release's title replace the one the record holds
MBTitle_overwrite(can, full) ==
  IF full.title # "" THEN [can EXCEPT !.title = full.title] ELSE can

\* line 368 of resolveMusicBrainz
MBTitle(can, full) ==
  IF can.title = "" THEN [can EXCEPT !.title = Or(full.title, "")] ELSE can

\* a slip that appends the tags without removing what is already there
MBGenre_concat(genre, tags) == genre \o MapTitleCase(tags)

\* lines 381-382 of resolveMusicBrainz
MBGenre(genre, tags) == dedupe(genre \o MapTitleCase(tags))

\* lines 368-383 of resolveMusicBrainz
MBCanonical(can, full) ==
  [MBTitle(can, full) EXCEPT
     !.artist = IF @ = "" /\ Len(full.credits) > 0
                THEN JoinAmp(CreditNames(full.credits)) ELSE @,
     !.country = IF full.country # "" /\ @ = "" THEN full.country ELSE @,
     !.year = IF full.date # "" /\ @ = ""
              THEN Slice0(full.date, YEAR_LEN) ELSE @,
     !.label = IF Len(full.labels) > 0 /\ full.labels[1].name # "" /\ @ = ""
               THEN full.labels[1].name ELSE @,
     !.catalog_number = IF Len(full.labels) > 0
                           /\ full.labels[1].catalog_number # "" /\ @ = ""
                        THEN full.labels[1].catalog_number ELSE @,
     !.genre = IF Len(full.tags) > 0 THEN MBGenre(@, full.tags) ELSE @]

\* a slip that adopts every Discogs link, also over an identifier already set
MBDiscogsLink_overwrite(idsv, rel) ==
  IF rel.site = "discogs" /\ rel.key # ""
  THEN [idsv EXCEPT !["discogs_release_id"] =
          Ref(rel.key, "https://www.discogs.com/release/" \o rel.key)]
  ELSE idsv

\* lines 390-395 of resolveMusicBrainz
MBDiscogsLink(idsv, rel) ==
  IF rel.site = "discogs" /\ idsv["discogs_release_id"] = <<>> /\ rel.key # ""
  THEN [idsv EXCEPT !["discogs_release_id"] =
          Ref(rel.key, "https://www.discogs.com/release/" \o rel.key)]
  ELSE idsv

\* one iteration of the loop of lines 387-406
MBRelation(idsv, rel) ==
  LET i1 == MBDiscogsLink(idsv, rel)
      i2 == IF rel.site = "wikidata" /\ rel.key # ""
               /\ i1["wikidata_qid"] = <<>>
            THEN [i1 EXCEPT !["wikidata_qid"] =
                    Ref(rel.key, "https://www.wikidata.org/wiki/" \o rel.key)]
            ELSE i1
  IN IF rel.site = "wikipedia" /\ i2["wikipedia_title"] = <<>>
     THEN [i2 EXCEPT !["wikipedia_title"] =
             Ref(rel.key, "https://en.wikipedia.org/wiki/" \o rel.key)]
     ELSE i2

RECURSIVE MBRelations(_, _)
MBRelations(idsv, rels) ==
  IF Len(rels) = 0 THEN idsv
  ELSE CHOOSE done \in
         {MBRelations(i1, Tail(rels)) :
            i1 \in {IF rels[1].site = "none" THEN idsv
                    ELSE MBRelation(idsv, rels[1])}} : TRUE

MBBarcodeQuery(bc) == "query=barcode%3A" \o bc \o "&fmt=json"
MBTextQuery(title, artist) ==
  "query=" \o title \o " AND artist:" \o artist \o "&fmt=json"

OutUnchangedButDiag == UNCHANGED <<canonical, ids, wikipedia, wiki, downloads, stamps>>
Frame ==
  UNCHANGED <<seed, flags, plan, world, response, other, running, request>>

\* lines 307-320: one iteration of the barcode loop
resolveMusicBrainz_barcode ==
  /\ pc = "mb_barcode"
  /\ called' = IF loc.bcIx = 1 THEN Append(called, "resolveMusicBrainz")
               ELSE called
  /\ IF seed.upc = ""
     THEN /\ Goto("mb_mbid")
          /\ NoCall
          /\ UNCHANGED <<diagnostics, loc>>
     ELSE \E a1 \in Attempts : \E a2 \in Retries(a1),
             body \in {BarcodeAnswer(loc.bcIx)} :
          LET barcodes == dedupe(diagnostics.tried_barcodes)
              bc == barcodes[loc.bcIx]
              r == GETjson("/release/", diagnostics.mb_http, MBBarcodeQuery(bc),
                           a1, a2, body)
              d1 == [diagnostics EXCEPT !.mb_http = r.log]
          IN /\ Answer(r.attempts, "mb", "barcode-search", bc)
             /\ IF r.thrown
                THEN /\ diagnostics' = Caught(d1, NetworkErrorMessage)
                     /\ Throw
                     /\ UNCHANGED loc
                ELSE IF r.data # <<>> /\ Len(r.data[1].releases) > 0
                THEN /\ loc' = [loc EXCEPT !.mbRel = <<r.data[1].releases[1]>>]
                     /\ diagnostics' = [d1 EXCEPT !.matched_on = "upc"]
                     /\ Goto("mb_mbid")
                ELSE /\ diagnostics' = d1
                     /\ IF loc.bcIx < Len(barcodes)
                        THEN /\ loc' = [loc EXCEPT !.bcIx = @ + 1]
                             /\ Goto("mb_barcode")
                        ELSE /\ Goto("mb_mbid")
                             /\ UNCHANGED loc
  /\ OutUnchangedButDiag
  /\ Frame

\* a slip that hydrates a seed identifier although a release was found
SeedIdWanted_always(mbRel, id) == id # ""

\* the conditions of lines 323 and 326
SeedIdWanted(mbRel, id) == mbRel = <<>> /\ id # ""

\* the direct hydration of a seed identifier (lines 323-328)
HydrateSeedId(at, id, then) ==
  /\ pc = at
  /\ IF SeedIdWanted(loc.mbRel, id)
     THEN \E a \in Attempts, body \in {world.release} :
          LET h == hydrateMBRelease(id, diagnostics, a, body) IN
          /\ Answer(h.attempts, "mb", "release", id)
          /\ diagnostics' = h.diag
          /\ loc' = [loc EXCEPT !.mbRel =
                       IF h.data = <<>> THEN <<>> ELSE <<[id |-> h.data[1].id]>>]
     ELSE /\ NoCall
          /\ UNCHANGED <<diagnostics, loc>>
  /\ Goto(then)
  /\ OutUnchangedButDiag
  /\ Frame
  /\ UNCHANGED called

resolveMusicBrainz_mbid == HydrateSeedId("mb_mbid", seed.mbid, "mb_relmbid")

\* a slip that falls back on the release group handed over with the seed
SeedReleaseId_or_group(sd) == Or(sd.mb_release_mbid, sd.mb_release_group)

\* the identifier line 326 tests and line 327 hydrates
SeedReleaseId(sd) == sd.mb_release_mbid

resolveMusicBrainz_release_mbid ==
  HydrateSeedId("mb_relmbid", SeedReleaseId(seed), "mb_text")

\* a slip that searches as soon as an artist or a title is at hand
TextSearchWanted_either(mbRel, artist, title) ==
  mbRel = <<>> /\ (artist # "" \/ title # "")

\* the condition of line 331
TextSearchWanted(mbRel, artist, title) ==
  mbRel = <<>> /\ artist # "" /\ title # ""

\* lines 331-340: the artist+title search
resolveMusicBrainz_text ==
  /\ pc = "mb_text"
  /\ LET artist == Or(seed.artist, canonical.artist)
         title == Or(seed.title, canonical.title)
     IN IF TextSearchWanted(loc.mbRel, artist, title)
        THEN \E a1 \in Attempts : \E a2 \in Retries(a1), body \in {world.mb_text} :
             LET r == GETjson("/release/", diagnostics.mb_http,
                              MBTextQuery(title, artist), a1, a2, body)
                 d1 == [diagnostics EXCEPT !.mb_http = r.log]
             IN /\ Answer(r.attempts, "mb", "text-search", title)
                /\ IF r.thrown
                   THEN /\ diagnostics' = Caught(d1, NetworkErrorMessage)
                        /\ Throw
                        /\ UNCHANGED loc
                   ELSE /\ Goto("mb_full")
                        /\ IF r.data # <<>> /\ Len(r.data[1].releases) > 0
                           THEN /\ loc' = [loc EXCEPT !.mbRel =
                                            <<r.data[1].releases[1]>>]
                                /\ diagnostics' =
                                     [d1 EXCEPT !.matched_on = "artist+title"]
                           ELSE /\ diagnostics' = d1
                                /\ UNCHANGED loc
        ELSE /\ NoCall
             /\ Goto("mb_full")
             /\ UNCHANGED <<diagnostics, loc>>
  /\ OutUnchangedButDiag
  /\ Frame
  /\ UNCHANGED called

\* lines 342-407: hydrate the candidate and merge it
resolveMusicBrainz_full ==
  /\ pc = "mb_full"
  /\ IF loc.mbRel = <<>>
     THEN /\ NextStage
          /\ NoCall
          /\ UNCHANGED <<diagnostics, canonical, ids>>
     ELSE \E a \in Attempts, body \in {world.release} :
          LET h == hydrateMBRelease(loc.mbRel[1].id, diagnostics, a, body) IN
          /\ Answer(h.attempts, "mb", "release-detail", loc.mbRel[1].id)
          /\ diagnostics' = h.diag
          /\ IF h.data = <<>>
             THEN /\ NextStage
                  /\ UNCHANGED <<canonical, ids>>
             ELSE LET full == h.data[1] IN
                  /\ ids' = MBRelations(MBIds(ids, full), full.relations)
                  /\ canonical' = MBCanonical(canonical, full)
                  /\ Goto("mb_warm_rg")
  /\ UNCHANGED <<wikipedia, wiki, downloads, stamps, loc, called>>
  /\ Frame

\* lines 410-420: the two cache-warming calls, bodies discarded
WarmUp(at, kind, req, then) ==
  /\ pc = at
  /\ IF ids[kind] # <<>> /\ ids[kind][1].id # ""
     THEN \E a1 \in Attempts : \E a2 \in Retries(a1) :
          LET r == GETjson("/" \o req \o "/" \o ids[kind][1].id,
                           diagnostics.mb_http, "fmt=json", a1, a2, <<>>)
              d1 == [diagnostics EXCEPT !.mb_http = r.log]
          IN /\ Answer(r.attempts, "mb", req, ids[kind][1].id)
             /\ IF r.thrown
                THEN /\ diagnostics' = Caught(d1, NetworkErrorMessage)
                     /\ Throw
                ELSE /\ diagnostics' = d1
                     /\ then
     ELSE /\ NoCall
          /\ then
          /\ UNCHANGED diagnostics
  /\ OutUnchangedButDiag
  /\ Frame
  /\ UNCHANGED <<loc, called>>

resolveMusicBrainz_warm_release_group ==
  WarmUp("mb_warm_rg", "mb_release_group", "release-group", Goto("mb_warm_artist"))

resolveMusicBrainz_warm_artist ==
  WarmUp("mb_warm_artist", "mb_artist_id", "artist", NextStage)

(***************************************************************************)
(* Wikidata.                                                               *)
(***************************************************************************)
\* s.split("/").pop()
RECURSIVE AfterLastSlash(_, _)
AfterLastSlash(s, i) ==
  IF i = 0 THEN s
  ELSE IF CharAt(s, i) = "/" THEN SubSeq(s, i + 1, Len(s))
  ELSE AfterLastSlash(s, i - 1)

\* results.bindings[0].item.value of a SPARQL answer ("" when there is none)
NoBinding == [binding |-> ""]
Binding(q) == [binding |-> "http://www.wikidata.org/entity/" \o q]

\* a slip that reads the binding of an answer whatever its status
sparqlFirst_any_status(label, log, a, body) ==
  IF a.err
  THEN [log |-> log, qid |-> "", thrown |-> TRUE, attempts |-> <<a>>]
  ELSE [log |-> Append(log, LogEntry(label, a)),
        qid |-> IF body.binding # ""
                THEN AfterLastSlash(body.binding, Len(body.binding)) ELSE "",
        thrown |-> FALSE, attempts |-> <<a>>]

\* the three sparqlFirst* functions: one POST, no retry, no catch
sparqlFirst(label, log, a, body) ==
  IF a.err
  THEN [log |-> log, qid |-> "", thrown |-> TRUE, attempts |-> <<a>>]
  ELSE [log |-> Append(log, LogEntry(label, a)),
        qid |-> IF Ok(a) /\ body.binding # ""
                THEN AfterLastSlash(body.binding, Len(body.binding)) ELSE "",
        thrown |-> FALSE, attempts |-> <<a>>]

\* data.entities[qid] of an EntityData answer: present is FALSE when the
\* answer does not hold the entity asked for; P175 lists the id of each
\* performer claim value ("" for a value without id), P18 the file of each
\* image claim ("" for a claim without value)
EntNone ==
  [present |-> FALSE, P175 |-> <<>>, P18 |-> <<>>, enwiki |-> "", dewiki |-> ""]
EntAlbum == [present |-> TRUE, P175 |-> <<"", "Q6">>, P18 |-> <<>>,
             enwiki |-> "Kind of Blue", dewiki |-> "Kind of Blue (Album)"]
EntArtist == [present |-> TRUE, P175 |-> <<>>,
              P18 |-> <<"Miles.jpg", "", "Davis.jpg">>, enwiki |-> "",
              dewiki |-> ""]

fetchWikidataEntity(qid, log, a1, a2, body) ==
  LET r == GETjson("/" \o qid \o ".json", log, "", a1, a2, body) IN
  [log |-> r.log, thrown |-> r.thrown, attempts |-> r.attempts,
   entity |-> IF r.data # <<>> /\ r.data[1].present THEN r.data ELSE <<>>]

RECURSIVE FirstNonEmpty(_)
FirstNonEmpty(xs) ==
  IF Len(xs) = 0 THEN ""
  ELSE IF xs[1] # "" THEN xs[1] ELSE FirstNonEmpty(Tail(xs))

pickClaimId(entity) ==
  IF entity = <<>> THEN "" ELSE FirstNonEmpty(entity[1].P175)

WikidataUrl(q) == "https://www.wikidata.org/wiki/" \o q

HasId(idsv, kind) == idsv[kind] # <<>> /\ idsv[kind][1].id # ""

\* a slip that takes every identifier for missing
Missing_always(idsv, kind) == TRUE

\* !out.ids[kind]
Missing(idsv, kind) == idsv[kind] = <<>>

\* a step of resolveWikidataAndWikipedia that asks SPARQL for `kind`
SparqlStep(at, guard, label, req, arg, bodies, kind, then) ==
  /\ pc = at
  /\ IF guard
     THEN \E a \in Attempts, body \in bodies :
          LET r == sparqlFirst(label, diagnostics.wd_http, a, body)
              d1 == [diagnostics EXCEPT !.wd_http = r.log]
          IN /\ Answer(r.attempts, "wd", req, arg)
             /\ IF r.thrown
                THEN /\ diagnostics' = Caught(d1, NetworkErrorMessage)
                     /\ Throw
                     /\ UNCHANGED ids
                ELSE /\ diagnostics' = d1
                     /\ Goto(then)
                     /\ ids' = IF r.qid # ""
                               THEN [ids EXCEPT ![kind] =
                                       Ref(r.qid, WikidataUrl(r.qid))]
                               ELSE ids
     ELSE /\ NoCall
          /\ Goto(then)
          /\ UNCHANGED <<diagnostics, ids>>
  /\ UNCHANGED <<canonical, wikipedia, wiki, downloads, stamps, loc>>
  /\ Frame

\* lines 446-457: the early return, then the release-group query
resolveWikidata_album_by_release_group ==
  /\ pc = "wd_album_rg"
  /\ called' = Append(called, "resolveWikidataAndWikipedia")
  /\ IF ~Missing(ids, "wikidata_qid") /\ ~Missing(ids, "artist_wikidata_qid")
        /\ ~Missing(ids, "wikipedia_title")
     THEN /\ NextStage
          /\ NoCall
          /\ UNCHANGED <<canonical, ids, wikipedia, wiki, downloads, stamps,
                         loc, diagnostics>>
          /\ Frame
     ELSE SparqlStep("wd_album_rg",
                     Missing(ids, "wikidata_qid") /\ HasId(ids, "mb_release_group"),
                     "SPARQL:MBRG->Q", "sparql-mbrg",
                     IF HasId(ids, "mb_release_group")
                     THEN ids["mb_release_group"][1].id ELSE "",
                     {world.sparql_rg}, "wikidata_qid", "wd_album_ta")

\* lines 459-464
resolveWikidata_album_by_title_artist ==
  /\ SparqlStep("wd_album_ta",
                Missing(ids, "wikidata_qid") /\ canonical.title # ""
                  /\ canonical.artist # "",
                "SPARQL:title+artist->Q", "sparql-title-artist", canonical.title,
                {world.sparql_ta}, "wikidata_qid", "wd_artist_mb")
  /\ UNCHANGED called

\* lines 468-475
resolveWikidata_artist_by_mb_artist ==
  /\ SparqlStep("wd_artist_mb",
                Missing(ids, "artist_wikidata_qid") /\ HasId(ids, "mb_artist_id"),
                "SPARQL:MBArtist->Q", "sparql-mbartist",
                IF HasId(ids, "mb_artist_id") THEN ids["mb_artist_id"][1].id
                ELSE "",
                {world.sparql_artist}, "artist_wikidata_qid", "wd_artist_p175")
  /\ UNCHANGED called

PerformerApply(idsv, entity) ==
  IF pickClaimId(entity) # ""
  THEN [idsv EXCEPT !["artist_wikidata_qid"] =
          Ref(pickClaimId(entity), WikidataUrl(pickClaimId(entity)))]
  ELSE idsv

\* encodeURIComponent, on the characters the titles of the model hold
RECURSIVE encodeURIComponent(_)
encodeURIComponent(s) ==
  IF s = "" THEN ""
  ELSE (IF CharAt(s, 1) = " " THEN "%20" ELSE CharAt(s, 1))
         \o encodeURIComponent(Tail(s))

SitelinkApply(idsv, entity) ==
  IF entity # <<>> /\ entity[1].enwiki # ""
  THEN [idsv EXCEPT !["wikipedia_title"] =
          Ref(entity[1].enwiki,
              "https://en.wikipedia.org/wiki/"
                \o encodeURIComponent(entity[1].enwiki))]
  ELSE idsv

\* what the step does with the entity it has read
EntityApply(use, idsv, entity) ==
  IF use = "performer" THEN PerformerApply(idsv, entity)
  ELSE SitelinkApply(idsv, entity)

\* a step of resolveWikidataAndWikipedia that reads the album entity
EntityStep(at, guard, use, then) ==
  /\ pc = at
  /\ IF guard
     THEN \E a1 \in Attempts : \E a2 \in Retries(a1),
             body \in {world.entity_album} :
          LET qid == ids["wikidata_qid"][1].id
              r == fetchWikidataEntity(qid, diagnostics.wd_http, a1, a2, body)
              d1 == [diagnostics EXCEPT !.wd_http = r.log]
          IN /\ Answer(r.attempts, "wd", "entity", qid)
             /\ IF r.thrown
                THEN /\ diagnostics' = Caught(d1, NetworkErrorMessage)
                     /\ Throw
                     /\ UNCHANGED ids
                ELSE /\ diagnostics' = d1
                     /\ then
                     /\ ids' = EntityApply(use, ids, r.entity)
     ELSE /\ NoCall
          /\ then
          /\ UNCHANGED <<diagnostics, ids>>
  /\ UNCHANGED <<canonical, wikipedia, wiki, downloads, stamps, loc, called>>
  /\ Frame

\* lines 477-483
resolveWikidata_artist_by_performer ==
  EntityStep("wd_artist_p175",
             Missing(ids, "artist_wikidata_qid") /\ HasId(ids, "wikidata_qid"),
             "performer", Goto("wd_sitelink"))

\* lines 487-494
resolveWikidata_sitelink ==
  EntityStep("wd_sitelink",
             Missing(ids, "wikipedia_title") /\ HasId(ids, "wikidata_qid"),
             "sitelink", NextStage)

(***************************************************************************)
(* Wikipedia enrichment.                                                   *)
(***************************************************************************)
SummaryNone == [title |-> "", extract |-> "", thumb |-> ""]
SummaryPlain == [title |-> "Kind of Blue", extract |-> "", thumb |-> ""]
SummaryFull ==
  [title |-> "Kind of Blue", extract |-> "1959 studio album",
   thumb |-> "https://upload.wikimedia.org/kob-thumb.jpg"]

\* the answer of the infobox endpoint: an object or another JSON value
Infobox(isObject) == [object |-> isObject]

MediaNone == [items |-> <<>>]
MediaList ==
   [items |-> <<[title |-> "File:Kind_of_Blue.jpg",
                 srcset |-> <<"//upload.wikimedia.org/kob-320.jpg",
                              "//upload.wikimedia.org/kob-640.jpg">>],
                [title |-> "", srcset |-> <<"https://upload.wikimedia.org/x.jpg">>],
                [title |-> "File:Empty.jpg", srcset |-> <<>>],
                [title |-> "File:Miles.jpg",
                 srcset |-> <<"https://commons.wikimedia.org/Miles.jpg">>],
                [title |-> "File:Again.jpg",
                 srcset |-> <<"//upload.wikimedia.org/kob-640.jpg">>]>>]

\* the rendered article: the tables (class wikitable or not, mentioning a
\* track listing or not, the text of the cells of each row), the h2 sections
\* (the headings' words the extractors look for, the text of the list
\* items) and the landmark phrases the stripped text holds, in the order of
\* the extractor's patterns
HtmlEmpty == [tables |-> <<>>, sections |-> <<>>, phrases |-> <<>>]
HtmlArticle ==
  [tables |-> <<[wikitable |-> TRUE, tracks |-> TRUE,
                 rows |-> <<<<"No.", "Title">>, <<"1", "So What">>,
                            <<"2.", "Freddie Freeloader">>, <<"3">>,
                            <<"B1", "All Blues">>>>],
                [wikitable |-> TRUE, tracks |-> FALSE,
                 rows |-> <<<<"1959", "Billboard">>>>],
                [wikitable |-> FALSE, tracks |-> TRUE,
                 rows |-> <<<<"9", "Hidden">>>>]>>,
   sections |-> <<[words |-> {"Personnel"},
                   items |-> <<"Miles Davis - trumpet", "", "Bill Evans - piano">>],
                  [words |-> {"Awards", "Certifications"},
                   items |-> <<"Grammy Hall of Fame (1992)">>],
                  [words |-> {"Reception"}, items |-> <<"five stars">>]>>,
   phrases |-> <<"Grammy Hall of Fame", "most influential", "Grammy Hall of Fame">>]

\* x.startsWith("//")
StartsWithSlashes(x) == Len(x) >= 2 /\ SubSeq(x, 1, 2) = "//"

pickLargestSrc(srcset) ==
  IF Len(srcset) = 0 THEN ""
  ELSE LET cand == srcset[Len(srcset)] IN
       IF cand = "" THEN ""
       ELSE IF StartsWithSlashes(cand) THEN "https:" \o cand ELSE cand

\* the loop of lines 609-620
RECURSIVE MediaItems(_)
MediaItems(items) ==
  IF Len(items) = 0 THEN <<>>
  ELSE LET it == items[1]
           best == pickLargestSrc(it.srcset)
       IN (IF it.title # "" /\ Len(it.srcset) > 0 /\ best # ""
           THEN <<[source |-> "enwiki:media-list", role |-> "gallery",
                   title |-> it.title, url |-> best]>>
           ELSE <<>>) \o MediaItems(Tail(items))

\* a slip that takes every row whose first cell holds some text
StartsWithDigit_any_text(s) == s # ""

\* /^\d+/.test(s)
StartsWithDigit(s) == s # "" /\ CharAt(s, 1) \in Digits

RECURSIVE TrackRows(_)
TrackRows(rows) ==
  IF Len(rows) = 0 THEN <<>>
  ELSE (IF Len(rows[1]) >= 2 /\ StartsWithDigit(rows[1][1])
        THEN <<[no |-> rows[1][1], title |-> rows[1][2]]>> ELSE <<>>)
         \o TrackRows(Tail(rows))

RECURSIVE extractTracklist(_)
extractTracklist(tables) ==
  IF Len(tables) = 0 THEN <<>>
  ELSE (IF tables[1].wikitable /\ tables[1].tracks
        THEN TrackRows(tables[1].rows) ELSE <<>>)
         \o extractTracklist(Tail(tables))

RECURSIVE NonEmpty(_)
NonEmpty(xs) ==
  IF Len(xs) = 0 THEN <<>>
  ELSE (IF xs[1] # "" THEN <<xs[1]>> ELSE <<>>) \o NonEmpty(Tail(xs))

\* the list items of the sections that hold one of `words`
RECURSIVE SectionItems(_, _)
SectionItems(sections, words) ==
  IF Len(sections) = 0 THEN <<>>
  ELSE (IF sections[1].words \cap words # {} THEN NonEmpty(sections[1].items)
        ELSE <<>>) \o SectionItems(Tail(sections), words)

\* a slip that stores what each extractor found, found or not
extractAll_found_or_not(wp, html) ==
  [wp EXCEPT !.tracklist = <<extractTracklist(html.tables)>>,
             !.personnel = <<SectionItems(html.sections, {"Personnel", "Credits"})>>,
             !.awards = <<SectionItems(html.sections, {"Awards", "Accolades"})>>,
             !.landmarks = <<dedupe(html.phrases)>>,
             !.certifications = <<SectionItems(html.sections, {"Certifications"})>>]

\* the five extractors of lines 628-632: a field is set only when its
\* extractor found something
extractAll(wp, html) ==
  LET tl == extractTracklist(html.tables)
      pe == SectionItems(html.sections, {"Personnel", "Credits"})
      aw == SectionItems(html.sections, {"Awards", "Accolades"})
      lm == html.phrases
      cf == SectionItems(html.sections, {"Certifications"})
      w1 == IF Len(tl) > 0 THEN [wp EXCEPT !.tracklist = <<tl>>] ELSE wp
      w2 == IF Len(pe) > 0 THEN [w1 EXCEPT !.personnel = <<pe>>] ELSE w1
      w3 == IF Len(aw) > 0 THEN [w2 EXCEPT !.awards = <<aw>>] ELSE w2
      w4 == IF Len(lm) > 0 THEN [w3 EXCEPT !.landmarks = <<dedupe(lm)>>] ELSE w3
  IN IF Len(cf) > 0 THEN [w4 EXCEPT !.certifications = <<cf>>] ELSE w4

SummaryCanonical(can, data) ==
  IF data # <<>> /\ data[1].title # "" /\ data[1].thumb # ""
     /\ can.cover_url = ""
  THEN [can EXCEPT !.cover_url = data[1].thumb] ELSE can

SummaryWikipedia(wp, data) ==
  IF data # <<>> /\ data[1].title # ""
  THEN [wp EXCEPT !.title = data[1].title,
                  !.summary = <<Or(data[1].extract, "")>>]
  ELSE wp

InfoboxWikipedia(wp, data) ==
  IF data # <<>> /\ data[1].object THEN [wp EXCEPT !.infobox = data] ELSE wp

MediaGallery(w, data) ==
  IF data # <<>>
  THEN [w EXCEPT !.article_gallery = @ \o MediaItems(data[1].items)] ELSE w

\* what each of the three answers is used for
WikiCanonical(req, can, data) ==
  IF req = "summary" THEN SummaryCanonical(can, data) ELSE can

WikiWikipedia(req, wp, data) ==
  CASE req = "summary" -> SummaryWikipedia(wp, data)
    [] req = "infobox" -> InfoboxWikipedia(wp, data)
    [] OTHER -> wp

WikiGallery(req, w, data) ==
  IF req = "media-list" THEN MediaGallery(w, data) ELSE w

\* one of the three GETjson calls of enrichFromWikipedia
WikiStep(at, req, bodies, then) ==
  /\ pc = at
  /\ \E a1 \in Attempts : \E a2 \in Retries(a1), body \in bodies :
       LET title == ids["wikipedia_title"][1].id
           r == GETjson("/" \o req \o "/" \o encodeURIComponent(title),
                        diagnostics.wiki_http, "", a1, a2, body)
           d1 == [diagnostics EXCEPT !.wiki_http = r.log]
       IN /\ Answer(r.attempts, "wiki", req, title)
          /\ IF r.thrown
             THEN /\ diagnostics' = Caught(d1, NetworkErrorMessage)
                  /\ Throw
                  /\ UNCHANGED <<canonical, wikipedia, wiki>>
             ELSE /\ diagnostics' = d1
                  /\ Goto(then)
                  /\ canonical' = WikiCanonical(req, canonical, r.data)
                  /\ wikipedia' = WikiWikipedia(req, wikipedia, r.data)
                  /\ wiki' = WikiGallery(req, wiki, r.data)
  /\ UNCHANGED <<ids, downloads, stamps, loc>>
  /\ Frame

\* line 589, then lines 594-600
enrichFromWikipedia_summary ==
  /\ called' = Append(called, "enrichFromWikipedia")
  /\ IF ~HasId(ids, "wikipedia_title")
     THEN /\ pc = "wp_summary"
          /\ NextStage
          /\ NoCall
          /\ UNCHANGED <<canonical, ids, wikipedia, wiki, downloads, stamps,
                         loc, diagnostics>>
          /\ Frame
     ELSE WikiStep("wp_summary", "summary", {world.summary}, "wp_infobox")

\* lines 603-604
enrichFromWikipedia_infobox ==
  /\ WikiStep("wp_infobox", "infobox", {world.infobox}, "wp_media")
  /\ UNCHANGED called

\* lines 607-621
enrichFromWikipedia_media_list ==
  /\ WikiStep("wp_media", "media-list", {world.media}, "wp_html")
  /\ UNCHANGED called

\* lines 624-633: the article, fetched without the provider client
enrichFromWikipedia_html ==
  /\ pc = "wp_html"
  /\ \E a \in Attempts, body \in {world.html} :
       LET title == ids["wikipedia_title"][1].id IN
       /\ Answer(<<a>>, "wiki", "html", title)
       /\ IF a.err
          THEN /\ diagnostics' = Caught(diagnostics, NetworkErrorMessage)
               /\ Throw
               /\ UNCHANGED wikipedia
          ELSE /\ diagnostics' = [diagnostics EXCEPT !.wiki_http =
                                    Append(@, LogEntry("/html/" \o title, a))]
               /\ NextStage
               /\ wikipedia' = IF Ok(a) THEN extractAll(wikipedia, body)
                               ELSE wikipedia
  /\ UNCHANGED <<canonical, ids, wiki, downloads, stamps, loc, called>>
  /\ Frame

(***************************************************************************)
(* Image galleries.                                                        *)
(***************************************************************************)
\* s.replace(/<[^>]+>/g, ""): inTag is "" outside a candidate tag, else the
\* text read since its "<"
RECURSIVE StripFrom(_, _, _)
StripFrom(s, i, inTag) ==
  IF i > Len(s) THEN inTag
  ELSE LET c == CharAt(s, i) IN
       IF inTag = ""
       THEN IF c = "<" THEN StripFrom(s, i + 1, "<")
            ELSE c \o StripFrom(s, i + 1, "")
       ELSE IF c = ">" /\ Len(inTag) > 1 THEN StripFrom(s, i + 1, "")
            ELSE IF c = ">" THEN "<>" \o StripFrom(s, i + 1, "")
            ELSE StripFrom(s, i + 1, inTag \o c)

stripHtml(s) == StripFrom(s, 1, "")

\* query.pages[first].imageinfo[0] of the answer, when there is one
CommonsNone == [imageinfo |-> <<>>]
CommonsNoUrl ==
  [imageinfo |-> <<[url |-> "", width |-> 0, height |-> 0, mime |-> "",
                    license |-> "", artist |-> "", description |-> ""]>>]
CommonsFile ==
  [imageinfo |-> <<[url |-> "https://commons.wikimedia.org/Miles.jpg",
                    width |-> 640, height |-> 480, mime |-> "image/jpeg",
                    license |-> "CC BY-SA 4.0",
                    artist |-> "<a href=\"//x\">Tom</a>",
                    description |-> "Miles Davis, 1959"]>>]

\* a slip that reads the metadata of an answer whatever its status
commonsImageInfo_any_status(log, a, body) ==
  IF a.err THEN [log |-> log, fi |-> <<>>, thrown |-> TRUE]
  ELSE [log |-> Append(log, LogEntry("/commons:imageinfo", a)),
        thrown |-> FALSE,
        fi |-> IF body.imageinfo # <<>>
               THEN LET ii == body.imageinfo[1] IN
                    <<[url |-> ii.url, width |-> ii.width, height |-> ii.height,
                       mime |-> ii.mime, license |-> ii.license,
                       artist |-> IF ii.artist # "" THEN stripHtml(ii.artist)
                                  ELSE "",
                       description |-> IF ii.description # ""
                                       THEN stripHtml(ii.description) ELSE ""]>>
               ELSE <<>>]

\* commonsImageInfo: one attempt, no retry, no catch
commonsImageInfo(log, a, body) ==
  IF a.err THEN [log |-> log, fi |-> <<>>, thrown |-> TRUE]
  ELSE [log |-> Append(log, LogEntry("/commons:imageinfo", a)),
        thrown |-> FALSE,
        fi |-> IF Ok(a) /\ body.imageinfo # <<>>
               THEN LET ii == body.imageinfo[1] IN
                    <<[url |-> ii.url, width |-> ii.width, height |-> ii.height,
                       mime |-> ii.mime, license |-> ii.license,
                       artist |-> IF ii.artist # "" THEN stripHtml(ii.artist)
                                  ELSE "",
                       description |-> IF ii.description # ""
                                       THEN stripHtml(ii.description) ELSE ""]>>
               ELSE <<>>]

buildImageCredit(fi) ==
  [license |-> Or(fi.license, ""), artist |-> Or(fi.artist, ""),
   caption |-> Or(fi.description, "")]

\* a slip that looks up every file of the claim
SliceSeq_all(xs, n) == xs

\* files.slice(0, n)
SliceSeq(xs, n) == SubSeq(xs, 1, IF Len(xs) < n THEN Len(xs) ELSE n)

\* fetch lines 80-82, then lines 651-658 of buildImageGalleries
buildImageGalleries_entity ==
  /\ pc = "img_entity"
  /\ IF flags.images = "none"
     THEN /\ NextStage
          /\ NoCall
          /\ UNCHANGED <<diagnostics, loc, called>>
     ELSE /\ called' = Append(called, "buildImageGalleries")
          /\ IF ~HasId(ids, "artist_wikidata_qid")
             THEN /\ NextStage
                  /\ NoCall
                  /\ UNCHANGED <<diagnostics, loc>>
             ELSE \E a1 \in Attempts : \E a2 \in Retries(a1), body \in {world.entity_artist} :
                  LET qid == ids["artist_wikidata_qid"][1].id
                      r == fetchWikidataEntity(qid, diagnostics.wd_http,
                                               a1, a2, body)
                      d1 == [diagnostics EXCEPT !.wd_http = r.log]
                      files == IF r.entity = <<>> THEN <<>>
                               ELSE SliceSeq(NonEmpty(r.entity[1].P18),
                                             flags.max_images)
                  IN /\ Answer(r.attempts, "wd", "entity", qid)
                     /\ IF r.thrown
                        THEN /\ diagnostics' = Caught(d1, NetworkErrorMessage)
                             /\ Throw
                             /\ UNCHANGED loc
                        ELSE /\ diagnostics' = d1
                             /\ loc' = [loc EXCEPT !.files = files, !.fileIx = 1]
                             /\ IF Len(files) > 0 THEN Goto("img_file")
                                ELSE NextStage
  /\ UNCHANGED <<canonical, ids, wikipedia, wiki, downloads, stamps>>
  /\ Frame

\* lines 659-673: one iteration of the loop over the files
buildImageGalleries_file ==
  /\ pc = "img_file"
  /\ \E a \in Attempts, body \in {world.commons[loc.fileIx]} :
       LET f == loc.files[loc.fileIx]
           r == commonsImageInfo(diagnostics.wiki_http, a, body)
           d1 == [diagnostics EXCEPT !.wiki_http = r.log]
       IN /\ Answer(<<a>>, "wiki", "imageinfo", f)
          /\ IF r.thrown
             THEN /\ diagnostics' = Caught(d1, NetworkErrorMessage)
                  /\ Throw
                  /\ UNCHANGED <<wiki, loc>>
             ELSE /\ diagnostics' = d1
                  /\ wiki' = IF r.fi # <<>> /\ r.fi[1].url # ""
                             THEN [wiki EXCEPT !.artist_gallery =
                                     Append(@, [source |-> "wikidata:P18",
                                                role |-> "image",
                                                title |-> "File:" \o f,
                                                url |-> r.fi[1].url,
                                                width |-> r.fi[1].width,
                                                height |-> r.fi[1].height,
                                                mime |-> r.fi[1].mime,
                                                credit |-> buildImageCredit(r.fi[1])])]
                             ELSE wiki
                  /\ loc' = [loc EXCEPT !.fileIx = @ + 1]
                  /\ IF loc.fileIx < Len(loc.files) THEN Goto("img_file")
                     ELSE NextStage
  /\ UNCHANGED <<canonical, ids, wikipedia, downloads, stamps, called>>
  /\ Frame

(***************************************************************************)
(* Finalize, aggregate, respond.                                           *)
(***************************************************************************)
finalizeCanonical ==
  /\ pc = "finalize"
  /\ canonical' = IF Len(canonical.format) = 0
                  THEN [canonical EXCEPT !.format = dedupe(<<"Album">>)]
                  ELSE canonical
  /\ called' = Append(called, "finalizeCanonical")
  /\ NextStage
  /\ NoCall
  /\ UNCHANGED <<ids, wikipedia, wiki, downloads, diagnostics, stamps, loc>>
  /\ Frame

GalleryUrls(g) == [i \in 1..Len(g) |-> g[i].url]

\* a slip that scans the artist gallery before the other two
DownloadList_artist_first(w) ==
  dedupe(NonEmpty(GalleryUrls(w.artist_gallery))
           \o NonEmpty(GalleryUrls(w.article_gallery))
           \o NonEmpty(GalleryUrls(w.album_gallery)))

\* lines 722-728 of aggregateDownloadList
DownloadList(w) ==
  dedupe(NonEmpty(GalleryUrls(w.article_gallery))
           \o NonEmpty(GalleryUrls(w.album_gallery))
           \o NonEmpty(GalleryUrls(w.artist_gallery)))

\* aggregateDownloadList, then stamp(out, "done")
aggregateDownloadList ==
  /\ pc = "aggregate"
  /\ downloads' = DownloadList(wiki)
  /\ stamps' = stamps \cup {"done"}
  /\ called' = Append(called, "aggregateDownloadList")
  /\ NextStage
  /\ NoCall
  /\ UNCHANGED <<canonical, ids, wikipedia, wiki, diagnostics, loc>>
  /\ Frame

\* return json(out, cacheTTL)
json ==
  /\ pc = "respond"
  /\ response' = <<[status |-> RESPONSE_STATUS,
                    content_type |-> "application/json; charset=utf-8"]>>
  /\ pc' = "returned"
  /\ NoCall
  /\ UNCHANGED <<seed, flags, canonical, ids, wikipedia, wiki, downloads,
                 diagnostics, stamps, plan, stage, loc, called, world, other,
                 running, request>>

(***************************************************************************)
(* parseSeed.                                                              *)
(***************************************************************************)
\* the query parameters parseSeed reads; "" for one that is not given
ParamNames ==
  {"upc", "ean", "barcode", "mbid", "mb_release_mbid", "mb_release_group",
   "mb_artist_id", "discogs", "discogs_release_id", "discogs_master_id",
   "qid", "title", "artist"}

NoParams == [n \in ParamNames |-> ""]

\* lines 182-193: the seed read from the query parameters
fromParams(p) ==
  [upc |-> Or(Or(p["upc"], p["ean"]), p["barcode"]), mbid |-> p["mbid"],
   mb_release_mbid |-> p["mb_release_mbid"],
   mb_release_group |-> p["mb_release_group"],
   mb_artist_id |-> p["mb_artist_id"],
   discogs |-> Or(p["discogs"], p["discogs_release_id"]),
   discogs_master_id |-> p["discogs_master_id"], qid |-> p["qid"],
   title |-> p["title"], artist |-> p["artist"]]

\* s.trim().split(/\s+/), with `cur` the part being read: the maximal runs
\* of characters other than the space
RECURSIVE SplitWs(_, _)
SplitWs(s, cur) ==
  IF s = "" THEN (IF cur = "" THEN <<>> ELSE <<cur>>)
  ELSE IF CharAt(s, 1) = " "
       THEN (IF cur = "" THEN <<>> ELSE <<cur>>) \o SplitWs(Tail(s), "")
       ELSE SplitWs(Tail(s), cur \o CharAt(s, 1))

\* the length of the run of [a-z_] characters, of either case, p starts with
RECURSIVE KeyLen(_)
KeyLen(p) ==
  IF p # "" /\ (CharAt(p, 1) = "_"
                \/ \E i \in 1..Len(LowerAlpha) :
                     CharAt(p, 1) \in {CharAt(LowerAlpha, i), CharAt(UpperAlpha, i)})
  THEN 1 + KeyLen(Tail(p))
  ELSE 0

\* p.match(/^([a-z_]+):(.*)$/i)
Matches(p) ==
  KeyLen(p) > 0 /\ Len(p) > KeyLen(p) /\ CharAt(p, KeyLen(p) + 1) = ":"

RECURSIVE ToLowerCase(_)
ToLowerCase(s) ==
  IF s = "" THEN ""
  ELSE (IF \E i \in 1..Len(UpperAlpha) : CharAt(UpperAlpha, i) = CharAt(s, 1)
        THEN CharAt(LowerAlpha, CHOOSE i \in 1..Len(UpperAlpha) :
                                   CharAt(UpperAlpha, i) = CharAt(s, 1))
        ELSE CharAt(s, 1)) \o ToLowerCase(Tail(s))

\* m[1].toLowerCase()
TokenKey(p) == ToLowerCase(SubSeq(p, 1, KeyLen(p)))

\* v.replace(/^"(.+)"$/, "$1")
Unquote(v) ==
  IF Len(v) >= 3 /\ CharAt(v, 1) = "\"" /\ CharAt(v, Len(v)) = "\""
  THEN SubSeq(v, 2, Len(v) - 1) ELSE v

TokenValue(p) == Unquote(SubSeq(p, KeyLen(p) + 2, Len(p)))

\* lines 200-209: one pass of the loop over the parts
ApplyToken(sd, p) ==
  IF ~Matches(p) THEN sd
  ELSE IF TokenKey(p) \in {"upc", "ean", "barcode"}
       THEN [sd EXCEPT !.upc = TokenValue(p)]
       ELSE IF TokenKey(p) \in {"mbid", "discogs", "qid", "artist", "title"}
            THEN [sd EXCEPT ![TokenKey(p)] = TokenValue(p)]
            ELSE sd

RECURSIVE ApplyTokens(_, _)
ApplyTokens(sd, parts) ==
  IF Len(parts) = 0 THEN sd
  ELSE ApplyTokens(ApplyToken(sd, parts[1]), Tail(parts))

\* split gives the one part "" for a command of spaces only
parseSeed(params, cmd) ==
  IF cmd = "" THEN fromParams(params)
  ELSE ApplyTokens(fromParams(params),
                   IF SplitWs(cmd, "") = <<>> THEN <<"">> ELSE SplitWs(cmd, ""))

\* the parameters of a request that spells the seed `sd` out, one by one
Params(sd) ==
  [n \in ParamNames |-> IF n \in DOMAIN sd THEN sd[n] ELSE ""]

\* a request without cmd parameter
NoCommand == request = [params |-> Params(seed), cmd |-> ""]

(***************************************************************************)
(* The runs checked: the seeds parseSeed can hand over, the flags, and     *)
(* what the providers hold.                                                *)
(***************************************************************************)
NoSeed ==
  [upc |-> "", mbid |-> "", mb_release_mbid |-> "", mb_release_group |-> "",
   mb_artist_id |-> "", discogs |-> "", discogs_master_id |-> "", qid |-> "",
   title |-> "", artist |-> ""]

Seeds ==
  {NoSeed,
   [NoSeed EXCEPT !.upc = "n/a", !.artist = "Seed Artist"],
   [NoSeed EXCEPT !.upc = "888751119215"],
   [NoSeed EXCEPT !.upc = "00-88", !.artist = "Seed Artist",
                  !.title = "Seed Title"],
   [NoSeed EXCEPT !.mbid = "m1"],
   [NoSeed EXCEPT !.mb_release_mbid = "m2", !.title = "Seed Title"],
   [NoSeed EXCEPT !.upc = "8 88751-119215", !.mbid = "m1",
                  !.mb_release_mbid = "m2", !.artist = "Seed Artist",
                  !.title = "Seed Title"]}

Flag(im, mx) == [all |-> FALSE, images |-> im, lang |-> "en", max_images |-> mx]

Flags == {Flag("both", DEFAULT_MAX_IMAGES), Flag("both", 1),
          Flag("none", DEFAULT_MAX_IMAGES)}

WorldRich ==
  [discogs |-> Results(HitFull), mb_barcode_at |-> 1, mb_text |-> Releases("r1"),
   release |-> FullRich, sparql_rg |-> Binding("Q2"),
   sparql_ta |-> Binding("Q2"), sparql_artist |-> Binding("Q5"),
   entity_album |-> EntAlbum, entity_artist |-> EntArtist,
   summary |-> SummaryFull, infobox |-> Infobox(TRUE), media |-> MediaList,
   html |-> HtmlArticle, commons |-> <<CommonsFile, CommonsNoUrl>>,
   answers |-> <<>>]

WorldMixed ==
  [WorldRich EXCEPT !.discogs = Results(HitBare), !.sparql_artist = NoBinding,
                    !.commons = <<CommonsNone, CommonsFile>>]

WorldLean ==
  [discogs |-> NoResults, mb_barcode_at |-> 2, mb_text |-> Releases("r2"),
   release |-> FullDuo, sparql_rg |-> NoBinding, sparql_ta |-> Binding("Q2"),
   sparql_artist |-> NoBinding, entity_album |-> EntAlbum,
   entity_artist |-> EntArtist, summary |-> SummaryPlain,
   infobox |-> Infobox(FALSE), media |-> MediaNone, html |-> HtmlEmpty,
   commons |-> <<CommonsFile, CommonsFile>>, answers |-> <<>>]

WorldBare ==
  [WorldLean EXCEPT !.discogs = Results(HitBare), !.mb_barcode_at = 0,
                    !.mb_text = NoReleases, !.release = FullBare,
                    !.sparql_ta = NoBinding, !.entity_album = EntNone,
                    !.entity_artist = EntNone, !.summary = SummaryNone]

WorldMusicBrainzOnly ==
  [WorldRich EXCEPT !.discogs = NoResults, !.mb_barcode_at = 2]

Worlds == {WorldRich, WorldMixed, WorldLean, WorldBare, WorldMusicBrainzOnly}

\* a single invocation of fetch
Alone == other = <<>> /\ running = 1

Init ==
  /\ seed \in Seeds
  /\ flags \in Flags
  /\ world \in Worlds
  /\ plan = Pipeline
  /\ InitOut
  /\ NoCommand
  /\ Alone

\* the resolver stages invoked in any order, for the properties that are to
\* hold regardless of call order
RECURSIVE Orders(_)
Orders(stages) ==
  IF stages = {} THEN {<<>>}
  ELSE UNION {{<<st>> \o rest : rest \in Orders(stages \ {st})} : st \in stages}

InitAnyOrder ==
  /\ seed \in {sd \in Seeds : sd.upc # "" /\ sd.title # ""}
  /\ flags = Flag("both", 1)
  /\ world \in {WorldRich, WorldMixed, WorldLean}
  /\ plan \in {o \o <<"wd_album_rg", "img_entity", "finalize", "aggregate">> :
                 o \in Orders({"discogs", "mb_barcode", "wp_summary"})}
  /\ InitOut
  /\ NoCommand
  /\ Alone

\* runs that differ in the barcode handed over: MaxLeadingZeros or fewer
\* zeros, a separator or none, and a run of digits of one of BodyLengths
MaxLeadingZeros == 3

BodyLengths == {0, 2, 11, 12, 13, 14}

RECURSIVE Repeat(_, _)
Repeat(c, n) == IF n = 0 THEN "" ELSE c \o Repeat(c, n - 1)

BarcodeInputs ==
  {Repeat("0", a) \o sep \o Repeat("7", c) :
     a \in 0..MaxLeadingZeros, sep \in {"", "-"}, c \in BodyLengths}

InitBarcodes ==
  /\ seed \in {[NoSeed EXCEPT !.upc = b] : b \in BarcodeInputs}
  /\ flags = Flag("both", 1)
  /\ world \in {WorldRich, WorldMusicBrainzOnly}
  /\ plan = Pipeline
  /\ InitOut
  /\ NoCommand
  /\ Alone

(***************************************************************************)
(* Two invocations of fetch in one isolate.  The runtime runs one of them  *)
(* at a time and may switch to the other whenever the running one is at an *)
(* await.  Every binding of fetch is a local of the invocation; `out` is   *)
(* the object literal initOut builds anew for each call.                   *)
(***************************************************************************)
\* a slip that keeps the document in one module-level object: an invocation
\* that resumes finds what the other one left there
OutOf_module_level(own, left) == left

\* the part of `out` an invocation finds when it resumes: `own` is what it
\* held when it was suspended, `left` what the other invocation holds
OutOf(own, left) == own

\* the bindings of the running invocation
Invocation ==
  [seed |-> seed, flags |-> flags, canonical |-> canonical, ids |-> ids,
   wikipedia |-> wikipedia, wiki |-> wiki, downloads |-> downloads,
   diagnostics |-> diagnostics, stamps |-> stamps, pc |-> pc, plan |-> plan,
   stage |-> stage, loc |-> loc, net |-> net, called |-> called,
   response |-> response, request |-> request]

\* an invocation that has been handed its request and has not run yet
Arrived(sd, fl) ==
  [seed |-> sd, flags |-> fl, canonical |-> initCanonical,
   ids |-> [k \in IdKinds |-> <<>>], wikipedia |-> initWikipedia,
   wiki |-> initWiki, downloads |-> <<>>, diagnostics |-> initDiagnostics,
   stamps |-> {"start"}, pc |-> "normalize", plan |-> Pipeline, stage |-> 0,
   loc |-> initLoc, net |-> <<>>, called |-> <<>>, response |-> <<>>,
   request |-> [params |-> Params(sd), cmd |-> ""]]

\* the runtime suspends the running invocation and resumes the other one
Yield ==
  /\ other # <<>>
  /\ other[1].pc # "returned"
  /\ other' = <<Invocation>>
  /\ running' = 3 - running
  /\ seed' = other[1].seed
  /\ flags' = other[1].flags
  /\ canonical' = OutOf(other[1].canonical, canonical)
  /\ ids' = OutOf(other[1].ids, ids)
  /\ wikipedia' = OutOf(other[1].wikipedia, wikipedia)
  /\ wiki' = OutOf(other[1].wiki, wiki)
  /\ downloads' = OutOf(other[1].downloads, downloads)
  /\ diagnostics' = OutOf(other[1].diagnostics, diagnostics)
  /\ stamps' = OutOf(other[1].stamps, stamps)
  /\ pc' = other[1].pc
  /\ plan' = other[1].plan
  /\ stage' = other[1].stage
  /\ loc' = other[1].loc
  /\ net' = other[1].net
  /\ called' = other[1].called
  /\ response' = other[1].response
  /\ request' = other[1].request
  /\ UNCHANGED <<world, faults>>

\* the requests of the two invocations
SeedsConcurrent ==
  {[NoSeed EXCEPT !.upc = "888751119215"],
   [NoSeed EXCEPT !.mbid = "m1", !.artist = "Seed Artist",
                  !.title = "Seed Title"]}

\* how the providers answer: every call with 200, or every call to one
\* endpoint with a failure first
AnswersConcurrent ==
  {[req |-> "none", first |-> [err |-> FALSE, status |-> 200]]}
    \cup {[req |-> r, first |-> a] :
            r \in {"search", "release-detail", "entity", "html"},
            a \in Attempts \ {[err |-> FALSE, status |-> 200]}}

InitConcurrent ==
  /\ seed \in SeedsConcurrent
  /\ flags = Flag("both", 1)
  /\ world \in {[WorldRich EXCEPT !.answers = <<a>>] : a \in AnswersConcurrent}
  /\ plan = Pipeline
  /\ InitOut
  /\ NoCommand
  /\ other \in {<<Arrived(sd, Flag("both", 1))>> : sd \in SeedsConcurrent}
  /\ running = 1

\* runs in which resolveWikidataAndWikipedia is called a second time, on
\* the record its first call has left
InitAgain ==
  /\ seed \in Seeds
  /\ flags = Flag("both", 1)
  /\ world \in {WorldRich, WorldMixed, WorldLean}
  /\ plan = <<"discogs", "mb_barcode", "wd_album_rg", "wd_album_rg",
              "wp_summary", "img_entity", "finalize", "aggregate">>
  /\ InitOut
  /\ NoCommand
  /\ Alone

Next ==
  \/ normalizeSeed
  \/ resolveDiscogsByUPC
  \/ resolveMusicBrainz_barcode
  \/ resolveMusicBrainz_mbid
  \/ resolveMusicBrainz_release_mbid
  \/ resolveMusicBrainz_text
  \/ resolveMusicBrainz_full
  \/ resolveMusicBrainz_warm_release_group
  \/ resolveMusicBrainz_warm_artist
  \/ resolveWikidata_album_by_release_group
  \/ resolveWikidata_album_by_title_artist
  \/ resolveWikidata_artist_by_mb_artist
  \/ resolveWikidata_artist_by_performer
  \/ resolveWikidata_sitelink
  \/ enrichFromWikipedia_summary
  \/ enrichFromWikipedia_infobox
  \/ enrichFromWikipedia_media_list
  \/ enrichFromWikipedia_html
  \/ buildImageGalleries_entity
  \/ buildImageGalleries_file
  \/ finalizeCanonical
  \/ aggregateDownloadList
  \/ json

Spec == Init /\ [][Next]_vars

SpecAnyOrder == InitAnyOrder /\ [][Next]_vars

SpecBarcodes == InitBarcodes /\ [][Next]_vars

SpecAgain == InitAgain /\ [][Next]_vars

\* runs that differ in the lang parameter, lower-cased by fetch
Langs == {"en", "de"}

InitLang ==
  /\ seed \in Seeds
  /\ flags \in {[Flag("both", 1) EXCEPT !.lang = l] : l \in Langs}
  /\ world \in {WorldRich, WorldMixed, WorldLean}
  /\ plan = Pipeline
  /\ InitOut
  /\ NoCommand
  /\ Alone

SpecLang == InitLang /\ [][Next]_vars

\* requests with a cmd parameter of MaxTokens or fewer parts
MaxTokens == 2

CommandTokens ==
  {"enrich", "-all", "upc:888751119215", "EAN:00-88", "barcode:", "mbid:m1",
   "artist:\"Miles Davis\"", "title:\"Kind\"", "title:Blue",
   "title:\"Kind of Blue\"",
   "mb_release_group:g9", "x1:y"}

RECURSIVE Commands(_)
Commands(n) ==
  IF n = 0 THEN {""}
  ELSE Commands(n - 1)
         \cup {IF c = "" THEN t ELSE c \o " " \o t :
                 c \in Commands(n - 1), t \in CommandTokens}

Requests ==
  {[params |-> p, cmd |-> c] :
     p \in {NoParams,
            [NoParams EXCEPT !["ean"] = "888751119215", !["barcode"] = "12",
                             !["mb_release_mbid"] = "m2",
                             !["title"] = "Seed Title"]},
     c \in Commands(MaxTokens)}

InitCommand ==
  /\ request \in Requests
  /\ seed = parseSeed(request.params, request.cmd)
  /\ flags = Flag("both", 1)
  /\ world = [WorldRich EXCEPT !.answers =
                <<[req |-> "none", first |-> [err |-> FALSE, status |-> 200]]>>]
  /\ plan = Pipeline
  /\ InitOut
  /\ Alone

SpecCommand == InitCommand /\ [][Next]_vars

\* runs in which the providers answer every call to one endpoint with the
\* same failure, or every call with 200
InitAnswered ==
  /\ seed \in SeedsConcurrent \cup {[NoSeed EXCEPT !.upc = "088751119215"]}
  /\ flags \in {Flag("both", 1), Flag("none", DEFAULT_MAX_IMAGES)}
  /\ world \in {[w EXCEPT !.answers = <<a>>] :
                  w \in {WorldRich, WorldMusicBrainzOnly},
                  a \in AnswersConcurrent}
  /\ plan = Pipeline
  /\ InitOut
  /\ NoCommand
  /\ Alone

\* every request is answered, with a status or with an error: a step that
\* awaits one is eventually taken
SpecAnswered == InitAnswered /\ [][Next]_vars /\ WF_vars(Next)

NextConcurrent == Next \/ Yield

SpecConcurrent == InitConcurrent /\ [][NextConcurrent]_vars

\* two invocations whose seeds differ only in fields no stage reads, the
\* providers answering both in the same way
UnreadVariants(sd) ==
  {[sd EXCEPT !.qid = "Q9", !.discogs = "77", !.discogs_master_id = "55",
              !.mb_release_group = "g9", !.mb_artist_id = "a9"],
   [sd EXCEPT !.mb_release_group = "g9"],
   [sd EXCEPT !.qid = "Q9", !.mb_artist_id = "a9"]}

InitTwins ==
  /\ seed \in SeedsConcurrent
               \cup {[NoSeed EXCEPT !.artist = "Seed Artist",
                                    !.title = "Seed Title"]}
  /\ flags = Flag("both", 1)
  /\ world \in {[WorldRich EXCEPT !.answers = <<a>>] : a \in AnswersConcurrent}
  /\ plan = Pipeline
  /\ InitOut
  /\ NoCommand
  /\ other \in {<<Arrived(sd, Flag("both", 1))>> : sd \in UnreadVariants(seed)}
  /\ running = 1

SpecTwins == InitTwins /\ [][NextConcurrent]_vars

(***************************************************************************)
(* Properties.                                                             *)
(***************************************************************************)
Range(f) == {f[i] : i \in DOMAIN f}

IsPrefix(a, b) == Len(a) <= Len(b) /\ SubSeq(b, 1, Len(a)) = a

\* the attempts the step from the unprimed to the primed state has issued
NewAttempts == SubSeq(net', Len(net) + 1, Len(net'))

FatalNotes(diag) == {i \in 1..Len(diag.notes) : diag.notes[i][1] = "fatal:"}

\* a rejected fetch outside hydrateMBRelease, whose try block catches its own
Escaped(n) ==
  \E i \in 1..Len(n) :
    n[i].err /\ n[i].req \notin {"release", "release-detail"}

\* C1: in a run with the stages in their fixed order, a scalar canonical
\* field that holds a non-empty value keeps it in every later state.
C1_ScalarFieldsWriteOnce ==
  [][\A f \in ScalarFields :
       canonical[f] # "" => canonical'[f] = canonical[f]]_vars

\* Discogs gave a title and an artist, and a MusicBrainz release with other
\* values has been merged after it
C1_Witness ==
  /\ pc = "returned"
  /\ plan = Pipeline
  /\ ids["discogs_release_id"] # <<>> /\ ids["mb_release_mbid"] # <<>>
  /\ canonical.title = "Kind of Blue"
  /\ world.release.title = "Kind of Blue (MB)"
  /\ canonical.country = "US" /\ world.release.country = "GB"

\* C2: canonical.title, once non-empty, is changed by no stage executed
\* afterwards, whatever the order in which the Discogs, MusicBrainz and
\* Wikipedia stages are invoked.
C2_TitleWriteOnceAnyOrder ==
  [][canonical.title # "" => canonical'.title = canonical.title]_vars

\* MusicBrainz ran before Discogs, both supplied a title, MusicBrainz's stays
C2_Witness ==
  /\ pc = "returned"
  /\ plan[1] = "mb_barcode"
  /\ ids["discogs_master_id"] # <<>>
  /\ ids["mb_release_mbid"] # <<>>
  /\ world.discogs = Results(HitFull)
  /\ canonical.title = "Kind of Blue (MB)"

\* C3: an identifier reference of out.ids, once set, is never replaced for
\* the rest of the run; a discogs_release_id set by the Discogs stage is not
\* changed by a Discogs link of the MusicBrainz relations.
C3_IdsFirstResolvedWins ==
  [][\A k \in IdKinds : ids[k] # <<>> => ids'[k] = ids[k]]_vars

\* Discogs set release 1001, then a release whose relations link Discogs
\* release 555 and Wikidata Q1 was merged, then the Wikidata stage ran
C3_Witness ==
  /\ pc = "returned"
  /\ ids["discogs_release_id"] = Ref("1001", "https://www.discogs.com/release/1001")
  /\ ids["mb_release_mbid"] # <<>>
  /\ \E i \in 1..Len(world.release.relations) :
       world.release.relations[i] = Rel("discogs", "555")
  /\ ids["wikidata_qid"] # <<>> /\ ids["wikidata_qid"][1].id = "Q1"
  /\ \E i \in 1..Len(called) : called[i] = "resolveWikidataAndWikipedia"

\* the requests by which resolveMusicBrainz looks for a candidate release
StrategyRank(req) ==
  CASE req = "barcode-search" -> 1
    [] req = "release" -> 2
    [] req = "text-search" -> 3
    [] OTHER -> 0

\* the first attempts of the barcode searches issued, in order
RECURSIVE BarcodesSearched(_)
BarcodesSearched(n) ==
  IF Len(n) = 0 THEN <<>>
  ELSE BarcodesSearched(SubSeq(n, 1, Len(n) - 1))
         \o (IF n[Len(n)].req = "barcode-search" /\ n[Len(n)].attempt = 1
             THEN <<n[Len(n)].arg>> ELSE <<>>)

\* C4: resolveMusicBrainz issues its strategies' requests in the order
\* barcode searches (candidates in list order), explicit release ID, text
\* search, and once a strategy has yielded a release it issues no request of
\* a later strategy or of a later barcode candidate.
C4_StrategyOrderFirstWins ==
  [][/\ \A i \in 1..Len(net') : \A j \in i..Len(net') :
          StrategyRank(net'[i].req) > 0 /\ StrategyRank(net'[j].req) > 0
            => StrategyRank(net'[i].req) <= StrategyRank(net'[j].req)
     /\ IsPrefix(BarcodesSearched(net'), dedupe(diagnostics'.tried_barcodes))
     /\ loc.mbRel # <<>> =>
          \A i \in 1..Len(NewAttempts) : StrategyRank(NewAttempts[i].req) = 0]_vars

\* the first barcode candidate matched for a seed that also holds both
\* explicit IDs, an artist and a title: no other strategy was tried
C4_Witness ==
  /\ pc = "returned"
  /\ seed.mbid # "" /\ seed.mb_release_mbid # "" /\ seed.artist # ""
  /\ seed.title # ""
  /\ Len(diagnostics.tried_barcodes) = 2
  /\ diagnostics.matched_on = "upc"
  /\ BarcodesSearched(net) = <<diagnostics.tried_barcodes[1]>>
  /\ ids["mb_release_mbid"] # <<>>

\* the requests that go through GETjson
ViaGETjson ==
  {"search", "barcode-search", "text-search", "release-group", "artist",
   "entity", "summary", "infobox", "media-list"}

\* the diagnostics log of a provider family
LogOf(diag, fam) ==
  CASE fam = "discogs" -> diag.discogs_http
    [] fam = "mb" -> diag.mb_http
    [] fam = "wd" -> diag.wd_http
    [] fam = "wiki" -> diag.wiki_http

Families == {"discogs", "mb", "wd", "wiki"}

Answered429(a) == ~a.err /\ a.status = HTTP_TOO_MANY

\* C5: a GETjson call makes a second attempt if and only if its first
\* attempt returned status 429, and never a third; when both attempts return
\* 429 the call yields no data (nothing of the document but the log changes,
\* no release is found) and exactly two entries are appended to the log the
\* call was given, none to another.
C5_RetryOnceOn429 ==
  [][LET A == NewAttempts IN
     (Len(A) > 0 /\ A[1].req \in ViaGETjson) =>
       /\ Len(A) <= 2
       /\ \A i \in 1..Len(A) :
            A[i].attempt = i /\ A[i].req = A[1].req /\ A[i].arg = A[1].arg
       /\ Len(A) = 2 <=> Answered429(A[1])
       /\ (Len(A) = 2 /\ Answered429(A[2])) =>
            /\ canonical' = canonical /\ ids' = ids
            /\ wikipedia' = wikipedia /\ wiki' = wiki
            /\ downloads' = downloads /\ loc'.mbRel = loc.mbRel
            /\ \A fam \in Families :
                 Len(LogOf(diagnostics', fam)) =
                   Len(LogOf(diagnostics, fam))
                     + (IF fam = A[1].family THEN 2 ELSE 0)
            /\ LET log == LogOf(diagnostics', A[1].family) IN
               /\ log[Len(log) - 1].status = HTTP_TOO_MANY
               /\ log[Len(log)].status = HTTP_TOO_MANY]_vars

\* a barcode search was answered 429 twice: two entries in mb_http, no release
\* from that candidate, and the run went on to its end
C5_Witness ==
  /\ pc = "returned"
  /\ \E i \in 1..(Len(net) - 1) :
       /\ net[i].req = "barcode-search" /\ net[i].attempt = 1
       /\ Answered429(net[i]) /\ net[i + 1].attempt = 2
       /\ Answered429(net[i + 1])
  /\ \E j \in 1..(Len(diagnostics.mb_http) - 1) :
       /\ diagnostics.mb_http[j].status = HTTP_TOO_MANY
       /\ diagnostics.mb_http[j + 1].status = HTTP_TOO_MANY
  /\ "done" \in stamps

\* the attempts of a family that returned a status, in the order made
RECURSIVE StatusAttempts(_, _)
StatusAttempts(n, fam) ==
  IF Len(n) = 0 THEN <<>>
  ELSE StatusAttempts(SubSeq(n, 1, Len(n) - 1), fam)
         \o (IF n[Len(n)].family = fam /\ ~n[Len(n)].err
             THEN <<n[Len(n)]>> ELSE <<>>)

EndsWith(str, suffix) ==
  Len(str) >= Len(suffix)
    /\ SubSeq(str, Len(str) - Len(suffix) + 1, Len(str)) = suffix

\* C6: each provider diagnostics log is append-only and receives exactly one
\* {request, status} entry per HTTP attempt that returned a status, the retry
\* included (and marked as such), in the order the attempts were made: what
\* a step appends to a log is the entries of the attempts it has issued to
\* that family, and nothing before them changes.
C6_LogsAppendOnlyOnePerAttempt ==
  [][\A fam \in Families :
       LET old == LogOf(diagnostics, fam)
           log == LogOf(diagnostics', fam)
           att == StatusAttempts(NewAttempts, fam)
       IN /\ IsPrefix(old, log)
          /\ Len(log) = Len(old) + Len(att)
          /\ \A i \in 1..Len(att) :
               /\ log[Len(old) + i].status = att[i].status
               /\ EndsWith(log[Len(old) + i].url, " (retry)")
                    <=> att[i].attempt = 2]_vars

\* a run whose MusicBrainz log holds a first attempt, its retry and the
\* hydrations after them
C6_Witness ==
  /\ pc = "returned"
  /\ Len(diagnostics.mb_http) >= 4
  /\ \E i \in 2..Len(diagnostics.mb_http) :
       /\ EndsWith(diagnostics.mb_http[i].url, " (retry)")
       /\ diagnostics.mb_http[i - 1].status = HTTP_TOO_MANY
  /\ \E i \in 1..Len(net) : net[i].req = "release-detail" /\ ~net[i].err
  /\ Len(diagnostics.wd_http) > 0

\* the parts of the output document other than diagnostics
Document == <<canonical, ids, wikipedia, wiki, downloads>>

\* C7: every invocation answers the document with status 200; when an
\* exception escapes a stage, diagnostics.notes gains exactly one "fatal:"
\* entry and everything written before the exception is still in the document
\* returned; when none escapes, no note begins with "fatal:".
C7_FatalCaughtOnceDocumentReturned ==
  [][/\ pc' = "returned" <=> response' # <<>>
     /\ response' # <<>> => response'[1].status = RESPONSE_STATUS
     /\ Cardinality(FatalNotes(diagnostics')) = IF Escaped(net') THEN 1 ELSE 0
     /\ Escaped(net') =>
          /\ Document' = Document
          /\ IsPrefix(diagnostics.notes, diagnostics'.notes)
          /\ diagnostics'.matched_on = diagnostics.matched_on
          /\ diagnostics'.tried_barcodes = diagnostics.tried_barcodes
          /\ \A fam \in Families :
               IsPrefix(LogOf(diagnostics, fam), LogOf(diagnostics', fam))
          /\ pc' \in {"respond", "returned"}]_vars

\* a fetch was rejected after MusicBrainz had filled the record: the partial
\* document was returned with one fatal note
C7_Witness ==
  /\ pc = "returned"
  /\ Escaped(net)
  /\ response # <<>> /\ response[1].status = RESPONSE_STATUS
  /\ Cardinality(FatalNotes(diagnostics)) = 1
  /\ canonical.title # "" /\ ids["mb_release_mbid"] # <<>>
  /\ Len(diagnostics.mb_http) > 0
  /\ "done" \notin stamps

\* the stage functions fetch calls when nothing stops it, in order
ExpectedCalls ==
  (IF seed.upc # "" THEN <<"resolveDiscogsByUPC">> ELSE <<>>)
    \o <<"resolveMusicBrainz", "resolveWikidataAndWikipedia",
         "enrichFromWikipedia">>
    \o (IF flags.images # "none" THEN <<"buildImageGalleries">> ELSE <<>>)
    \o <<"finalizeCanonical", "aggregateDownloadList">>

\* the stage functions from which a request is issued
StagesOf(req) ==
  CASE req = "search" -> {"resolveDiscogsByUPC"}
    [] req \in {"barcode-search", "release", "text-search", "release-detail",
                "release-group", "artist"} -> {"resolveMusicBrainz"}
    [] req \in {"sparql-mbrg", "sparql-title-artist", "sparql-mbartist"} ->
         {"resolveWikidataAndWikipedia"}
    [] req = "entity" -> {"resolveWikidataAndWikipedia", "buildImageGalleries"}
    [] req \in {"summary", "infobox", "media-list", "html"} ->
         {"enrichFromWikipedia"}
    [] req = "imageinfo" -> {"buildImageGalleries"}

\* some provider call failed, with a status or with a network-level error
SomeCallFailed == \E i \in 1..Len(net) : net[i].err \/ ~Ok(net[i])

NoLead ==
  /\ normalizeBarcode(seed.upc) = ""
  /\ seed.mbid = "" /\ seed.mb_release_mbid = ""
  /\ ~(seed.artist # "" /\ seed.title # "")

\* C9: with no barcode, no explicit release ID and not both an artist and a
\* title, the run issues no outbound request (the four logs stay empty) and
\* the document returned has empty ids, no fatal note and format ["Album"].
C9_NoLeadNoRequests ==
  NoLead =>
    /\ net = <<>>
    /\ \A fam \in Families : LogOf(diagnostics, fam) = <<>>
    /\ pc = "returned" =>
         /\ \A k \in IdKinds : ids[k] = <<>>
         /\ FatalNotes(diagnostics) = {}
         /\ canonical.format = <<"Album">>

\* a seed with an unusable barcode and an artist alone went through every
\* stage
C9_Witness ==
  /\ pc = "returned"
  /\ NoLead
  /\ seed.artist # ""
  /\ called = ExpectedCalls
  /\ canonical.format = <<"Album">>

\* " & " between the names of the artist credit, spelled out
CreditLine(credits) ==
  CASE Len(credits) = 1 -> credits[1].name
    [] Len(credits) = 2 -> credits[1].name \o " & " \o credits[2].name
    [] OTHER -> ""

\* the seed holds a barcode and nothing else, Discogs gave no hit, and the
\* MusicBrainz barcode search and the hydration both returned a release
BarcodeOnlyMatch ==
  /\ seed.upc # "" /\ seed.mbid = "" /\ seed.mb_release_mbid = ""
  /\ seed.artist = "" /\ seed.title = ""
  /\ ~\E i \in 1..Len(net) :
        /\ net[i].req = "search" /\ ~net[i].err /\ Ok(net[i])
        /\ Len(world.discogs.results) > 0
  /\ \E i \in 1..Len(net) :
       /\ net[i].req = "barcode-search" /\ ~net[i].err /\ Ok(net[i])
       /\ BarcodeAnswer(Len(BarcodesSearched(SubSeq(net, 1, i)))) # NoReleases
  /\ \E i \in 1..Len(net) :
       net[i].req = "release-detail" /\ ~net[i].err /\ Ok(net[i])
  /\ world.release.title # "" /\ Len(world.release.credits) > 0

\* C10: for a seed holding only a barcode, when Discogs gives no hit and the
\* MusicBrainz barcode search and the hydration both return a release with
\* title T and artist-credit names [A], the record returned has title T,
\* artist A (several names joined by " & ") and matched_on "upc".
C10_BarcodeMatchFillsRecord ==
  (pc = "returned" /\ BarcodeOnlyMatch) =>
    /\ canonical.title = world.release.title
    /\ canonical.artist = CreditLine(world.release.credits)
    /\ diagnostics.matched_on = "upc"

\* barcode 888751119215 alone, no Discogs result, a release credited to one
\* name
C10_Witness ==
  /\ pc = "returned"
  /\ BarcodeOnlyMatch
  /\ seed.upc = "888751119215"
  /\ world.discogs = NoResults
  /\ Len(world.release.credits) = 1
  /\ canonical.artist = "Miles Davis Sextet"
  /\ canonical.title = "Kind of Blue (MB)"
  /\ diagnostics.matched_on = "upc"

\* C11: in every reachable state canonical.genre holds no entry twice and
\* no empty entry, whatever the Discogs genres, the Discogs styles and the
\* MusicBrainz tags contribute (lists that overlap or repeat included).
C11_GenreNoDuplicates ==
  \A i \in 1..Len(canonical.genre) :
    /\ canonical.genre[i] # ""
    /\ \A j \in 1..Len(canonical.genre) :
         canonical.genre[i] = canonical.genre[j] => i = j

\* Discogs gave genre Jazz and styles Modal, "", Jazz; MusicBrainz gave the
\* tags jazz, modal jazz, "", Jazz
C11_Witness ==
  /\ pc = "returned"
  /\ world.discogs = Results(HitFull) /\ world.release = FullRich
  /\ ids["discogs_master_id"] # <<>> /\ ids["mb_release_mbid"] # <<>>
  /\ canonical.genre = <<"Jazz", "Modal", "Modal Jazz">>

\* the URL of every gallery item, the galleries scanned in the order
\* article, album, artist
ScannedUrls ==
  [i \in 1..Len(wiki.article_gallery) |-> wiki.article_gallery[i].url]
    \o [i \in 1..Len(wiki.album_gallery) |-> wiki.album_gallery[i].url]
    \o [i \in 1..Len(wiki.artist_gallery) |-> wiki.artist_gallery[i].url]

\* where u occurs first in xs
FirstAt(u, xs) ==
  CHOOSE i \in 1..Len(xs) : xs[i] = u /\ \A j \in 1..(i - 1) : xs[j] # u

\* C12: after aggregateDownloadList, downloads.image_urls holds exactly the
\* non-empty URLs of the items of the three galleries, each once, in the
\* order of their first occurrence when the galleries are scanned article,
\* album, artist.
C12_DownloadListFirstSeenOrder ==
  "aggregateDownloadList" \in Range(called) =>
    /\ \A i \in 1..Len(downloads) :
         /\ downloads[i] # ""
         /\ \E k \in 1..Len(ScannedUrls) : ScannedUrls[k] = downloads[i]
         /\ \A j \in 1..Len(downloads) : downloads[i] = downloads[j] => i = j
    /\ \A k \in 1..Len(ScannedUrls) :
         ScannedUrls[k] # "" =>
           \E i \in 1..Len(downloads) : downloads[i] = ScannedUrls[k]
    /\ \A i \in 1..Len(downloads) : \A j \in (i + 1)..Len(downloads) :
         FirstAt(downloads[i], ScannedUrls) < FirstAt(downloads[j], ScannedUrls)

\* the article's media list named one image twice and the artist's image
\* too, which Commons then returned for the artist gallery
C12_Witness ==
  /\ pc = "returned"
  /\ "aggregateDownloadList" \in Range(called)
  /\ Len(wiki.article_gallery) = 3 /\ Len(wiki.artist_gallery) >= 1
  /\ wiki.article_gallery[1].url = wiki.article_gallery[3].url
  /\ wiki.artist_gallery[1].url = wiki.article_gallery[2].url
  /\ downloads = <<"https://upload.wikimedia.org/kob-640.jpg",
                   "https://commons.wikimedia.org/Miles.jpg">>

\* the barcode search for the first candidate returned a release
FirstCandidateFound ==
  \E i \in 1..Len(net) :
    /\ net[i].req = "barcode-search" /\ ~net[i].err /\ Ok(net[i])
    /\ net[i].arg = diagnostics.tried_barcodes[1]
    /\ Len(BarcodeAnswer(1).releases) > 0

OnlyDigits(str) == \A i \in 1..Len(str) : CharAt(str, i) \in Digits

\* C14: normalizeBarcode is idempotent, normalizeBarcode(normalizeBarcode(x))
\* = normalizeBarcode(x) for every input x, and returns every string of
\* exactly 12 or 13 digits unchanged, leading zeros included.
C14_NormalizeBarcodeIdempotent ==
  [][pc = "normalize" =>
       /\ normalizeBarcode(seed'.upc) = seed'.upc
       /\ (OnlyDigits(seed.upc) /\ Len(seed.upc) \in {12, 13}) =>
            seed'.upc = seed.upc]_vars

\* a barcode of 13 digits, two of them leading zeros, has been normalized
C14_Witness ==
  /\ pc # "normalize"
  /\ seed.upc = "0077777777777"
  /\ diagnostics.tried_barcodes = <<"0077777777777">>

\* the rows of the tables of class wikitable that mention a track listing,
\* in document order
RECURSIVE TrackTableRows(_)
TrackTableRows(tables) ==
  IF Len(tables) = 0 THEN <<>>
  ELSE TrackTableRows(SubSeq(tables, 1, Len(tables) - 1))
         \o (IF tables[Len(tables)].wikitable /\ tables[Len(tables)].tracks
             THEN tables[Len(tables)].rows ELSE <<>>)

\* the first cell is a number / the first cell begins with a digit
NumericCell(cell) == cell # "" /\ OnlyDigits(cell)
DigitFirst(cell) == cell # "" /\ SubSeq(cell, 1, 1) \in Digits

\* every entry of the tracklist is a row of two cells or more of a track
\* listing table, the rows taken in document order, and the first cell of
\* each is numeric (strict) or begins with a digit
TracklistFromRows(strict) ==
  wikipedia.tracklist # <<>> =>
    LET tl == wikipedia.tracklist[1]
        rows == TrackTableRows(world.html.tables)
    IN \E f \in [1..Len(tl) -> 1..Len(rows)] :
         /\ \A i \in 1..Len(tl) : \A j \in 1..Len(tl) : i < j => f[i] < f[j]
         /\ \A i \in 1..Len(tl) :
              /\ Len(rows[f[i]]) >= 2
              /\ tl[i] = [no |-> rows[f[i]][1], title |-> rows[f[i]][2]]
              /\ IF strict THEN NumericCell(rows[f[i]][1])
                 ELSE DigitFirst(rows[f[i]][1])

Returned(inv) ==
  <<inv.canonical, inv.ids, inv.wikipedia, inv.wiki, inv.downloads,
    inv.diagnostics, inv.stamps, inv.response>>

\* the statuses of the log of a family
Statuses_of(log) == [i \in DOMAIN log |-> log[i].status]

\* the logs of an invocation hold the attempts of that invocation, no others
OwnLogs(inv) ==
  \A fam \in Families :
    Statuses_of(LogOf(inv.diagnostics, fam))
      = Statuses_of(StatusAttempts(inv.net, fam))

\* C16: two invocations interleaved at their awaits share no mutable state:
\* a step of the running invocation leaves the suspended one as it was, an
\* invocation that resumes finds every one of its bindings as it left them,
\* the logs of an invocation hold its own attempts only, and two invocations
\* given the same request and the same provider answers return the same
\* document and diagnostics, however they were interleaved.
C16_InvocationsShareNoState ==
  [][/\ running' = running => other' = other
     /\ running' # running =>
          /\ other' = <<Invocation>>
          /\ Invocation' = other[1]
     /\ OwnLogs(Invocation')
     /\ other' # <<>> => OwnLogs(other'[1])
     /\ (/\ other' # <<>>
         /\ pc' = "returned"
         /\ other'[1].pc = "returned"
         /\ seed' = other'[1].seed) =>
          /\ net' = other'[1].net
          /\ Returned(Invocation') = Returned(other'[1])]_vars

\* both invocations have returned after being suspended half-way: one was
\* given a barcode, the other an identifier, and both made requests of their
\* own that were throttled
C16_Witness ==
  /\ other # <<>>
  /\ pc = "returned"
  /\ other[1].pc = "returned"
  /\ seed # other[1].seed
  /\ running = 1
  /\ \E i \in 1..Len(net) : Answered429(net[i])
  /\ \E i \in 1..Len(other[1].net) : Answered429(other[1].net[i])
  /\ diagnostics.discogs_http # other[1].diagnostics.discogs_http

\* C17: within one invocation the stages run one after another in the order
\* seed normalization, Discogs, MusicBrainz, Wikidata, Wikipedia enrichment,
\* image galleries, finalize, download aggregation: the stage functions are
\* called in that order, each at most once and none before the seed is
\* normalized, and every request is issued by the stage called last, so none
\* is issued before the requests of the earlier stages were answered.
C17_StagesInPipelineOrder ==
  [][/\ IsPrefix(called, called')
     /\ IsPrefix(called', ExpectedCalls')
     /\ pc = "normalize" => (called = <<>> /\ net = <<>> /\ net' = <<>>)
     /\ \A i \in 1..Len(NewAttempts) :
          /\ called' # <<>>
          /\ called'[Len(called')] \in StagesOf(NewAttempts[i].req)]_vars

\* a run through all the stages, each of the five that issue requests having
\* issued one
C17_Witness ==
  /\ pc = "returned"
  /\ Len(called) = 7
  /\ \A st \in {"search", "barcode-search", "sparql-mbrg", "summary",
                "imageinfo"} : \E i \in 1..Len(net) : net[i].req = st

\* the number of calls of a request made so far (a retry is not a call)
Calls(req) ==
  Cardinality({i \in 1..Len(net) : net[i].req = req /\ net[i].attempt = 1})

RequestsBounded ==
  /\ Calls("barcode-search") <= 2
  /\ Calls("imageinfo") <= flags.max_images
  /\ \A i \in 1..Len(net) : net[i].attempt <= 2
  /\ \A req \in {"search", "text-search", "release-detail", "release-group",
                 "artist", "sparql-mbrg", "sparql-title-artist",
                 "sparql-mbartist", "summary", "infobox", "media-list",
                 "html"} : Calls(req) <= 1
  /\ Calls("release") <= 2
  /\ Calls("entity") <= 3

\* C18: when every request is answered, with a status or with an error, every
\* invocation returns its response, and the requests it has issued by then
\* (none is issued later, and none is ever taken back) are bounded:
\* at most 2 barcode searches, at most 2 attempts per call, at most
\* max_images file lookups, at most 2 hydrations of a seed identifier, at
\* most 3 entity lookups and at most one call of every other request.
C18_ReturnsWithBoundedRequests ==
  <>(pc = "returned" /\ RequestsBounded)

\* a run that has returned after two barcode searches, a retried call, and
\* one file lookup although the artist entity names two files
C18_Witness ==
  /\ pc = "returned"
  /\ Calls("barcode-search") = 2
  /\ \E i \in 1..Len(net) : net[i].attempt = 2
  /\ Calls("imageinfo") = 1
  /\ flags.max_images = 1
  /\ Len(NonEmpty(world.entity_artist.P18)) = 2

\* C19: every request of every resolver stage that is answered with status
\* 429 is retried exactly once: the first attempt of a call that was answered
\* 429 is followed by a second attempt of the same call, and no attempt
\* follows a second one.
C19_Every429Retried ==
  \A i \in 1..Len(net) :
    /\ (Answered429(net[i]) /\ net[i].attempt = 1) =>
         /\ i < Len(net)
         /\ net[i + 1].attempt = 2
         /\ net[i + 1].req = net[i].req
         /\ net[i + 1].arg = net[i].arg
    /\ net[i].attempt <= 2

\* C20: at the end of a run in which resolveMusicBrainz adopted a release
\* (ids.mb_release_mbid is set), diagnostics.matched_on is non-null and names
\* the strategy that found the release; and matched_on is null whenever no
\* strategy found a release.
C20_MatchedOnNamesStrategy ==
  pc = "returned" =>
    /\ ids["mb_release_mbid"] # <<>> =>
         /\ diagnostics.matched_on # ""
         /\ diagnostics.matched_on = "upc" =>
              \E i \in 1..Len(net) : net[i].req = "barcode-search" /\ Ok(net[i])
         /\ diagnostics.matched_on = "artist+title" =>
              \E i \in 1..Len(net) : net[i].req = "text-search" /\ Ok(net[i])
    /\ loc.mbRel = <<>> => diagnostics.matched_on = ""

\* the Discogs search the step has made was answered (no exception)
DiscogsAnswered ==
  /\ pc = "discogs"
  /\ Len(NewAttempts) > 0
  /\ ~NewAttempts[Len(NewAttempts)].err

\* the answered search gave no data (a failure status)
DiscogsNoData == DiscogsAnswered /\ ~Ok(NewAttempts[Len(NewAttempts)])

\* the answered search gave data with an empty result list
DiscogsEmpty ==
  /\ DiscogsAnswered
  /\ Ok(NewAttempts[Len(NewAttempts)])
  /\ Len(world.discogs.results) = 0

\* C21: when the Discogs barcode search yields no data or an empty result
\* list, the Discogs stage appends a soft-failure note to diagnostics.notes,
\* leaves canonical and ids unchanged, and the run continues with the
\* MusicBrainz stage.
C21_DiscogsNoResultNoted ==
  [][(DiscogsNoData \/ DiscogsEmpty) =>
       /\ Len(diagnostics'.notes) = Len(diagnostics.notes) + 1
       /\ IsPrefix(diagnostics.notes, diagnostics'.notes)
       /\ canonical' = canonical
       /\ ids' = ids
       /\ pc' = "mb_barcode"]_vars

\* C22: the Discogs stage, run on a record in which a scalar canonical field
\* (country, label, title, artist, year, cover_url) is already non-empty,
\* leaves that field unchanged whatever the search hit contains.
C22_DiscogsFillsOnlyEmpty ==
  [][pc = "discogs" =>
       \A f \in {"country", "label", "title", "artist", "year", "cover_url"} :
         canonical[f] # "" => canonical'[f] = canonical[f]]_vars

\* the positions of resolveMusicBrainz before the re-hydration
MBSearching == {"mb_barcode", "mb_mbid", "mb_relmbid", "mb_text"}

\* the step leaves resolveMusicBrainz without a hydrated release: no strategy
\* found a candidate, or the re-hydration of the candidate failed
MBLeavesEmptyHanded ==
  /\ pc = "mb_full"
  /\ \/ loc.mbRel = <<>>
     \/ /\ Len(NewAttempts) > 0
        /\ NewAttempts[1].err \/ ~Ok(NewAttempts[1])

\* the rank of the strategy whose request was the last one issued (0: none)
LastStrategy(n) ==
  LET S == {i \in 1..Len(n) : StrategyRank(n[i].req) > 0}
  IN IF S = {} THEN 0
     ELSE StrategyRank(n[CHOOSE i \in S : \A j \in S : j <= i].req)

\* of diagnostics, only the MusicBrainz log and the notes have grown, but for
\* matched_on
OnlyMBLogAndNotesGrow ==
  /\ IsPrefix(diagnostics.mb_http, diagnostics'.mb_http)
  /\ IsPrefix(diagnostics.notes, diagnostics'.notes)
  /\ diagnostics' = [diagnostics EXCEPT !.mb_http = diagnostics'.mb_http,
                                        !.notes = diagnostics'.notes,
                                        !.matched_on = diagnostics'.matched_on]

\* C23 as claimed: when no MusicBrainz strategy finds a candidate release, or
\* the re-hydration of the found candidate fails, resolveMusicBrainz leaves
\* canonical, ids and diagnostics.matched_on as they were on entry (matched_on
\* is null on entry); only the mb_http log and the notes may have grown.
C23_NoReleaseNoEffect ==
  [][/\ pc \in MBSearching =>
          canonical' = canonical /\ ids' = ids /\ OnlyMBLogAndNotesGrow
     /\ MBLeavesEmptyHanded =>
          /\ canonical' = canonical /\ ids' = ids /\ OnlyMBLogAndNotesGrow
          /\ diagnostics'.matched_on = ""]_vars

\* C23 as amended: in those runs canonical and ids are as they were on entry
\* and only the mb_http log and the notes have grown; matched_on is as on
\* entry when no strategy found a candidate or an explicit ID did, and names
\* the search that found the candidate ("upc", "artist+title") when the
\* re-hydration of a candidate found by a search fails.
C23_NoReleaseOnlyMatchedOn ==
  [][/\ pc \in MBSearching =>
          canonical' = canonical /\ ids' = ids /\ OnlyMBLogAndNotesGrow
     /\ MBLeavesEmptyHanded =>
          /\ canonical' = canonical /\ ids' = ids /\ OnlyMBLogAndNotesGrow
          /\ diagnostics'.matched_on =
               IF loc.mbRel = <<>> THEN ""
               ELSE CASE LastStrategy(net) = 1 -> "upc"
                      [] LastStrategy(net) = 2 -> ""
                      [] LastStrategy(net) = 3 -> "artist+title"]_vars

\* the barcode search found a candidate, its re-hydration was answered with a
\* failure status, and the stage has been left with matched_on "upc" and no
\* release identifier
C23_Witness ==
  /\ pc = "wd_album_rg"
  /\ Len(net) > 0
  /\ net[Len(net)].req = "release-detail"
  /\ ~Ok(net[Len(net)])
  /\ diagnostics.matched_on = "upc"
  /\ ids["mb_release_mbid"] = <<>>
  /\ canonical.title # ""

\* the positions of resolveWikidataAndWikipedia
WDPositions ==
  {"wd_album_rg", "wd_album_ta", "wd_artist_mb", "wd_artist_p175",
   "wd_sitelink"}

AllThreeKnown(idsv) ==
  /\ idsv["wikidata_qid"] # <<>>
  /\ idsv["artist_wikidata_qid"] # <<>>
  /\ idsv["wikipedia_title"] # <<>>

\* C24: when ids.wikidata_qid, ids.artist_wikidata_qid and
\* ids.wikipedia_title are all set on entry, resolveWikidataAndWikipedia
\* issues no request and changes nothing in the output document.
C24_AllKnownShortCircuit ==
  [][(pc \in WDPositions /\ AllThreeKnown(ids)) =>
       /\ NewAttempts = <<>>
       /\ Document' = Document
       /\ diagnostics' = diagnostics
       /\ stamps' = stamps]_vars

\* the second call of the resolver has returned: it found the three
\* identifiers its first call had resolved by requests
C24_Witness ==
  /\ pc = "wp_summary"
  /\ stage = 5
  /\ AllThreeKnown(ids)
  /\ Calls("sparql-mbartist") = 1
  /\ Calls("entity") = 1
  /\ Len(called) >= 2
  /\ called[Len(called)] = "resolveWikidataAndWikipedia"
  /\ called[Len(called) - 1] = "resolveWikidataAndWikipedia"


\* ---- the album lookup of resolveWikidataAndWikipedia ----

Asked(req) == \E i \in 1..Len(NewAttempts) : NewAttempts[i].req = req

SparqlBody(req) ==
  IF req = "sparql-mbrg" THEN world.sparql_rg
  ELSE IF req = "sparql-title-artist" THEN world.sparql_ta
  ELSE world.sparql_artist

\* a SPARQL answer that names no entity: a status outside 2xx, or no binding
SparqlFruitless ==
  \E i \in 1..Len(NewAttempts) :
    /\ NewAttempts[i].req \in {"sparql-mbrg", "sparql-title-artist",
                               "sparql-mbartist"}
    /\ ~NewAttempts[i].err
    /\ ~Ok(NewAttempts[i]) \/ SparqlBody(NewAttempts[i].req).binding = ""

\* C25: the release-group query is issued exactly when the album identifier
\* is unset and a release group was discovered; the title+artist query is
\* issued exactly when the album identifier is still unset after that and
\* canonical title and artist are both set; no query is issued for an
\* identifier that is set; an answer outside 2xx or without binding leaves
\* the identifiers as they were and adds no "fatal:" note.
C25_AlbumLookupOrder ==
  [][/\ Asked("sparql-mbrg") <=>
          /\ pc = "wd_album_rg" /\ ~AllThreeKnown(ids)
          /\ ids["wikidata_qid"] = <<>> /\ HasId(ids, "mb_release_group")
     /\ Asked("sparql-title-artist") <=>
          /\ pc = "wd_album_ta" /\ ids["wikidata_qid"] = <<>>
          /\ canonical.title # "" /\ canonical.artist # ""
     /\ Asked("sparql-title-artist") /\ HasId(ids, "mb_release_group") =>
          Calls("sparql-mbrg") = 1
     /\ Asked("sparql-mbartist") => ids["artist_wikidata_qid"] = <<>>
     /\ SparqlFruitless =>
          /\ ids' = ids
          /\ FatalNotes(diagnostics') = FatalNotes(diagnostics)]_vars

C25_Witness ==
  /\ pc = "wd_artist_mb"
  /\ Calls("sparql-mbrg") = 1
  /\ Calls("sparql-title-artist") = 1
  /\ \E i \in 1..Len(net) : net[i].req = "sparql-mbrg" /\ ~Ok(net[i])
  /\ ids["wikidata_qid"] # <<>>
  /\ FatalNotes(diagnostics) = {}


\* ---- the four fetches of enrichFromWikipedia ----

WikipediaFetches == {"summary", "infobox", "media-list", "html"}

\* C26: once enrichFromWikipedia has a title and issues its first fetch, each
\* of the four fetches (summary, infobox, media-list, article content) is
\* issued by the end of the run, whatever became of the other three.
C26_WikipediaFetchesIndependent ==
  (pc = "returned" /\ Calls("summary") = 1) =>
     \A req \in WikipediaFetches : Calls(req) = 1


\* ---- the site link read by resolveWikidataAndWikipedia ----

\* sitelinks[lang + "wiki"].title of an entity
Sitelink(entity, lang) == IF lang = "de" THEN entity.dewiki ELSE entity.enwiki

\* C27: the Wikipedia title adopted from the album entity is the entity's
\* site link of the language flags.lang, and its url is on the Wikipedia
\* host of that language.
C27_SitelinkOfLang ==
  [][(pc = "wd_sitelink" /\ ids["wikipedia_title"] = <<>>
        /\ ids'["wikipedia_title"] # <<>>) =>
       LET t == Sitelink(world.entity_album, flags.lang)
       IN ids'["wikipedia_title"] =
            Ref(t, "https://" \o flags.lang \o ".wikipedia.org/wiki/"
                     \o encodeURIComponent(t))]_vars


\* ---- the artist gallery of buildImageGalleries ----

\* the file metadata of the lookup in hand came back, with a url
MetadataWithUrl ==
  /\ Ok(NewAttempts[1])
  /\ world.commons[loc.fileIx].imageinfo # <<>>
  /\ world.commons[loc.fileIx].imageinfo[1].url # ""

\* C28: with flags.images "none" the image stage issues no request and
\* artist_gallery stays empty; otherwise artist_gallery never holds more than
\* max_images items, an answered file lookup adds one item, for the file
\* looked up, exactly when its metadata came back with a url, and a lookup
\* without metadata adds no item and no note.
C28_ArtistGalleryBounded ==
  [][/\ (pc = "img_entity" /\ flags.images = "none") =>
          NewAttempts = <<>> /\ pc' # "img_file"
     /\ flags.images = "none" =>
          wiki'.artist_gallery = <<>> /\ ~Asked("imageinfo")
     /\ Len(wiki'.artist_gallery) <= flags.max_images
     /\ (pc = "img_file" /\ Len(NewAttempts) = 1 /\ ~NewAttempts[1].err) =>
          IF MetadataWithUrl
          THEN /\ Len(wiki'.artist_gallery) = Len(wiki.artist_gallery) + 1
               /\ SubSeq(wiki'.artist_gallery, 1, Len(wiki.artist_gallery))
                    = wiki.artist_gallery
               /\ LET it == wiki'.artist_gallery[Len(wiki'.artist_gallery)]
                  IN /\ it.title = "File:" \o loc.files[loc.fileIx]
                     /\ it.url = world.commons[loc.fileIx].imageinfo[1].url
          ELSE /\ wiki' = wiki
               /\ diagnostics'.notes = diagnostics.notes]_vars

C28_Witness ==
  /\ pc = "returned"
  /\ flags.images # "none"
  /\ Calls("imageinfo") = 2
  /\ Len(wiki.artist_gallery) = 1
  /\ FatalNotes(diagnostics) = {}


\* ---- the extractor fields of out.wikipedia ----

ExtractorFields ==
  {"tracklist", "personnel", "awards", "certifications", "landmarks"}

\* the article content was fetched: an html request answered with 2xx
ContentFetched ==
  \E i \in 1..Len(net) : net[i].req = "html" /\ ~net[i].err /\ Ok(net[i])

\* C29: a field of out.wikipedia written by one of the five extractors is
\* present only with at least one item in it, and only after the article
\* content was fetched; it is never present as an empty collection.
C29_ExtractorFieldsAbsentOrNonEmpty ==
  \A f \in ExtractorFields :
    wikipedia[f] # <<>> => Len(wikipedia[f][1]) > 0 /\ ContentFetched

C29_Witness ==
  /\ pc = "returned"
  /\ ContentFetched
  /\ world.html = HtmlEmpty
  /\ \A f \in ExtractorFields : wikipedia[f] = <<>>


\* ---- the command string of parseSeed ----

\* the key:value tokens of a command, a quoted value holding its spaces
RECURSIVE GrammarTokens(_, _, _)
GrammarTokens(s, cur, quoted) ==
  IF s = "" THEN (IF cur = "" THEN <<>> ELSE <<cur>>)
  ELSE IF CharAt(s, 1) = " " /\ ~quoted
       THEN (IF cur = "" THEN <<>> ELSE <<cur>>)
              \o GrammarTokens(Tail(s), "", FALSE)
       ELSE GrammarTokens(Tail(s), cur \o CharAt(s, 1),
                          IF CharAt(s, 1) = "\"" THEN ~quoted ELSE quoted)

\* the keys that name a seed field
KeysOf(field) ==
  IF field = "upc" THEN {"upc", "ean", "barcode"}
  ELSE {field} \cap {"mbid", "discogs", "qid", "artist", "title"}

\* the value of the last token of `toks` with a key of `keys`, or `default`
LastValue(toks, keys, default) ==
  LET named == {i \in 1..Len(toks) :
                  Matches(toks[i]) /\ TokenKey(toks[i]) \in keys}
  IN IF named = {} THEN default
     ELSE TokenValue(toks[CHOOSE i \in named : \A j \in named : j <= i])

\* C30: the seed parseSeed returns gives each field the value of the last
\* key:value token of the command that names it (upc, ean and barcode naming
\* the barcode), and the value of the query parameters when no token does;
\* other tokens change nothing.
C30_LastTokenWins ==
  pc = "normalize" =>
    \A f \in DOMAIN seed :
      seed[f] = LastValue(GrammarTokens(request.cmd, "", FALSE), KeysOf(f),
                          fromParams(request.params)[f])


\* ---- quoted values of the command string ----

\* the last token of `toks` with a key of `keys`, "" when there is none
LastToken(toks, keys) ==
  LET named == {i \in 1..Len(toks) :
                  Matches(toks[i]) /\ TokenKey(toks[i]) \in keys}
  IN IF named = {} THEN ""
     ELSE toks[CHOOSE i \in named : \A j \in named : j <= i]

\* the value of token p is written between double quotes and holds a space
QuotedWithSpaces(p) ==
  LET v == SubSeq(p, KeyLen(p) + 2, Len(p))
  IN /\ Unquote(v) # v
     /\ \E i \in 1..Len(v) : CharAt(v, i) = " "

\* C31: when the last token that names a seed field has a double-quoted
\* value with spaces in it, parseSeed sets the field to the whole value
\* between the quotes, for every recognised key.
C31_QuotedValueKeptWhole ==
  pc = "normalize" =>
    \A f \in DOMAIN seed :
      LET p == LastToken(GrammarTokens(request.cmd, "", FALSE), KeysOf(f))
      IN (p # "" /\ QuotedWithSpaces(p)) => seed[f] = TokenValue(p)


\* ---- what the returned document holds of the last three statements ----

NoFatalNote == FatalNotes(diagnostics) = {}

\* C32: the document returned has the done stamp, a non-empty
\* canonical.format and a download list written by aggregateDownloadList
\* exactly when diagnostics.notes holds no "fatal:" note; after an escaped
\* exception finalizeCanonical and aggregateDownloadList were not called,
\* canonical.format is empty and downloads.image_urls is empty.
C32_FinishedIffNoFatalNote ==
  pc = "returned" =>
    /\ "done" \in stamps <=> NoFatalNote
    /\ canonical.format # <<>> <=> NoFatalNote
    /\ "aggregateDownloadList" \in Range(called) <=> NoFatalNote
    /\ NoFatalNote => downloads = DownloadList(wiki)
    /\ ~NoFatalNote =>
         /\ "finalizeCanonical" \notin Range(called)
         /\ canonical.format = <<>>
         /\ downloads = <<>>

C32_Witness ==
  /\ pc = "returned"
  /\ ~NoFatalNote
  /\ canonical.title # ""
  /\ wiki.article_gallery # <<>>
  /\ canonical.format = <<>>
  /\ downloads = <<>>
  /\ "done" \notin stamps


\* ---- canonical.upc ----

\* the Discogs search was answered with at least one result
DiscogsHit ==
  /\ Len(world.discogs.results) > 0
  /\ \E i \in 1..Len(net) :
       net[i].req = "search" /\ ~net[i].err /\ Ok(net[i])

\* C33: canonical.upc is absent or the canonicalized seed barcode, and it is
\* present exactly when the Discogs search returned at least one result; a
\* release MusicBrainz matched by barcode, without a Discogs result, leaves
\* it absent.
C33_UpcOnlyFromDiscogsHit ==
  /\ canonical.upc # "" =>
       canonical.upc = seed.upc /\ seed.upc = normalizeBarcode(seed.upc)
  /\ canonical.upc # "" <=> DiscogsHit
  /\ (diagnostics.matched_on = "upc" /\ ~DiscogsHit) => canonical.upc = ""

C33_Witness ==
  /\ pc = "returned"
  /\ diagnostics.matched_on = "upc"
  /\ ids["mb_release_mbid"] # <<>>
  /\ seed.upc # ""
  /\ ~DiscogsHit
  /\ canonical.upc = ""


\* ---- the seed fields no stage reads ----

UnreadFields ==
  {"qid", "discogs", "discogs_master_id", "mb_release_group", "mb_artist_id"}

\* the two invocations have returned
BothReturned == other # <<>> /\ pc = "returned" /\ other[1].pc = "returned"

====
